---- MODULE Spec2Model ----
(***************************************************************************)
(* Database snapshot / diff / restore engine of                            *)
(* app/infrastructure/database/backup/core.py, as a state machine.         *)
(*                                                                         *)
(* The live PostgreSQL database is a catalog of tables and, per table, a   *)
(* set of rows.  An engine call (create_backup, calculate_diff,            *)
(* restore_backup) runs step by step; other clients change the database    *)
(* between calls.  restore_backup works on a transaction-private copy of   *)
(* the rows (tx) that replaces the committed rows only at commit.          *)
(***************************************************************************)
EXTENDS Integers, Sequences, FiniteSets, TLC

VARIABLES
    catalog,      \* names of the tables that exist live (inspector.get_table_names())
    rows,         \* committed rows of every table: table name -> set of rows
    files,        \* the backup directory: path -> file content
    pc,           \* position of the running engine call ("idle" when none runs)
    call,         \* the running call and its arguments
    backup_data,  \* restore_backup: the loaded BackupData
    diff_summary, \* restore_backup: the DiffSummary computed before the transaction
    tx,           \* restore_backup: the open transaction's view of the rows
    todo,         \* restore_backup: snapshot tables still to reinsert
    restored,     \* restore_backup: total_restored_tables / total_restored_rows
    exc,          \* the exception being handled, "" when none
    result,       \* what the finished call returned or raised
    pre,          \* history: the catalog, committed rows and files when the call started
    prev,         \* history: path of the snapshot the previous call restored, "" otherwise
    edits,        \* history: row inserts and deletes per table since the last snapshot
    codec,        \* a cell value on its way through _serialize_value and _deserialize_value
    cli,          \* the running `backup restore` command: its options, position and trace
    clock,        \* the wall clock, in ticks
    dir,          \* the named artifacts of the backup directory
    sweep,        \* the retention setting and the last run of the retention sweep
    made,         \* history: the create_backup calls by start time, with the names they chose
    seen,         \* history: the committed database states a snapshot build ran through
    remote,       \* the remote object storage: whether it is configured, and its objects
    store,        \* the sessions table as SessionService sees it, and its last answer
    task          \* the running BatchTask.run(): its position and the calls it made

vars == <<catalog, rows, files, pc, call, backup_data, diff_summary, tx, todo,
          restored, exc, result, pre, prev, edits, codec, cli, clock, dir, sweep, made,
          seen, remote, store, task>>

\* the state of the engine calls and of the database
engine == <<catalog, rows, files, pc, call, backup_data, diff_summary, tx, todo,
            restored, exc, result, pre, prev, edits>>

\* what the engine calls leave alone
others == <<codec, cli, clock, dir, sweep, made, seen, remote, store, task>>

----------------------------------------------------------------------------
(* Bounds of the model *)

\* distinct rows the table sessions can hold
MaxSessions == 2

\* distinct rows the table blobs can hold
MaxBlobs == 1

\* row inserts and deletes counted after a snapshot
MaxEdits == 3

\* largest content of a cell value sent through the value codec
MaxCell == 4

\* days the wall clock runs through while artifacts age
MaxDays == 9

\* artifacts the backup directory holds at a time
MaxFiles == 2

\* ticks of the wall clock while create_backup calls are named
MaxTicks == 8

\* create_backup calls that are named
MaxCalls == 3

\* writes other clients commit while one snapshot is built
MaxWrites == 3

\* session ids one run generates
MaxIds == 3

\* ticks of the clock while sessions are served
MaxSessionTicks == 3

\* BatchTask.run() calls in a row
MaxRuns == 3

----------------------------------------------------------------------------
(* The schema *)

AlembicTable == "alembic_version"

DataTables == {"blobs", "sessions"}

AllTables == DataTables \cup {AlembicTable}

\* the order in which the catalog lists tables
TableOrder == <<"alembic_version", "blobs", "sessions">>

\* column names and PostgreSQL column types of a table, in native order
Columns(t) ==
    IF t = "sessions" THEN <<"session_id", "expires_at">>
    ELSE IF t = "blobs" THEN <<"id", "payload">>
    ELSE <<"version_num">>

ColumnType(t, c) ==
    IF c = "id" THEN "integer"
    ELSE IF c = "expires_at" THEN "timestamp"
    ELSE IF c = "payload" THEN "bytea"
    ELSE "varchar"

\* migration revisions the migration runner can set
Revisions == {"r1", "r2"}

----------------------------------------------------------------------------
(* Cell values.  A value is [t, s, n]: t its Python type, s and n its       *)
(* content.  A str is plain text (s = "plain"), the ISO-8601 text of        *)
(* datetime n (s = "iso") or the base64 text of bytes n (s = "b64").  A     *)
(* dict is the JSON object {"__type__": s, "data": <base64 text of n>}; n =  *)
(* NoData is an object with no "data" member, n = BadData one whose "data"  *)
(* is text that base64 cannot decode.                                       *)

PyNone == [t |-> "none", s |-> "", n |-> 0]
PyBool(i) == [t |-> "bool", s |-> "", n |-> i]
PyInt(i) == [t |-> "int", s |-> "", n |-> i]
PyFloat(i) == [t |-> "float", s |-> "", n |-> i]
PyStr(kind, i) == [t |-> "str", s |-> kind, n |-> i]
PyDatetime(d) == [t |-> "datetime", s |-> "", n |-> d]
PyBytes(b) == [t |-> "bytes", s |-> "", n |-> b]
PyDict(tag, b) == [t |-> "dict", s |-> tag, n |-> b]

NoData == 0 - 1

BadData == 0 - 2

\* the exception a call raised instead of returning a value
PyRaise(e) == [t |-> "raise", s |-> e, n |-> 0]

_serialize_value(value) ==
    IF value.t = "none" THEN PyNone
    ELSE IF value.t = "datetime" THEN PyStr("iso", value.n)
    ELSE IF value.t = "bytes" THEN PyDict("bytes", value.n)
    ELSE value

\* column_type "" stands for None
_deserialize_value(value, column_type) ==
    IF value.t = "none" THEN PyNone
    ELSE IF value.t = "dict" /\ value.s = "bytes"
         THEN IF value.n = NoData THEN PyRaise("KeyError")
              ELSE IF value.n = BadData THEN PyRaise("binascii.Error")
              ELSE PyBytes(value.n)
    ELSE IF value.t = "str" /\ column_type = "timestamp" /\ value.s = "iso"
         THEN PyDatetime(value.n)
    ELSE value

\* What PostgreSQL stores for a bound parameter in a column of the given type:
\* NULL anywhere, a value of the column's type as it is, ISO text cast to a
\* timestamp; anything else is a DataError.
PgError == [t |-> "error", s |-> "DataError", n |-> 0]

PgStore(column_type, value) ==
    IF value.t = "none" THEN PyNone
    ELSE IF column_type = "integer" /\ value.t = "int" THEN value
    ELSE IF column_type = "timestamp" /\ value.t = "datetime" THEN value
    ELSE IF column_type = "timestamp" /\ value.t = "str" /\ value.s = "iso"
         THEN PyDatetime(value.n)
    ELSE IF column_type = "bytea" /\ value.t = "bytes" THEN value
    ELSE IF column_type = "varchar" /\ value.t = "str" THEN value
    ELSE PgError

\* the rows a data table can hold: row i has primary key i; a session row has
\* a timestamp, a blob row has bytes or NULL
RowOf(t, i) ==
    IF t = "sessions"
    THEN <<PyStr("plain", i), PyDatetime(i)>>
    ELSE <<PyInt(i), IF i % 2 = 1 THEN PyBytes(i) ELSE PyNone>>

RowDomain(t) == {RowOf(t, i) : i \in 1..(IF t = "sessions" THEN MaxSessions ELSE MaxBlobs)}

\* the cell values a column can hold: NULL, booleans, integers, floats, text,
\* timestamps and binary blobs
CellValues ==
    {PyNone} \cup {PyBool(i) : i \in 0..1}
    \cup UNION {{PyInt(i), PyFloat(i), PyStr("plain", i), PyDatetime(i), PyBytes(i)} :
                   i \in 0..MaxCell}

\* the values a JSON document can hold in a cell: null, booleans, numbers, text
\* (plain, ISO-8601, base64) and objects, tagged as bytes or otherwise, with
\* their data, without it, or with data that is no base64
JsonValues ==
    {PyNone} \cup {PyBool(i) : i \in 0..1}
    \cup UNION {{PyInt(i), PyFloat(i), PyStr("plain", i), PyStr("iso", i), PyStr("b64", i),
                 PyDict("bytes", i), PyDict("other", i)} : i \in 0..MaxCell}
    \cup {PyDict(tag, n) : tag \in {"bytes", "other"}, n \in {NoData, BadData}}

\* the column type hints a caller can pass, "" for none
ColumnTypes == {"", "integer", "timestamp", "bytea", "varchar", "boolean", "double precision"}

\* the PostgreSQL type of the column a value is read from
ColumnTypeOf(value) ==
    IF value.t = "datetime" THEN "timestamp"
    ELSE IF value.t = "bytes" THEN "bytea"
    ELSE IF value.t = "int" THEN "integer"
    ELSE IF value.t = "bool" THEN "boolean"
    ELSE IF value.t = "float" THEN "double precision"
    ELSE "varchar"

----------------------------------------------------------------------------
(* Sequences and sums *)

\* the elements of seq that are in S, in seq's order
RECURSIVE Filter(_, _)
Filter(seq, S) ==
    IF seq = <<>> THEN <<>>
    ELSE IF Head(seq) \in S THEN <<Head(seq)>> \o Filter(Tail(seq), S)
    ELSE Filter(Tail(seq), S)

Range(seq) == {seq[i] : i \in 1..Len(seq)}

\* a table's rows as a query returns them: by primary key
RECURSIVE FetchAll(_)
FetchAll(S) ==
    IF S = {} THEN <<>>
    ELSE LET r == CHOOSE x \in S : \A y \in S : x[1].n <= y[1].n
         IN  <<r>> \o FetchAll(S \ {r})

\* sum of f[t] over the tables in S
RECURSIVE Sum(_, _)
Sum(f, S) ==
    IF S = {} THEN 0
    ELSE LET t == CHOOSE x \in S : TRUE IN f[t] + Sum(f, S \ {t})

----------------------------------------------------------------------------
(* Artifacts (models.py) *)

NoTables == [t \in {} |-> 0]

\* BackupData: metadata.migration_version and tables, name -> TableBackup
EmptyBackup == [migration_version |-> "", tables |-> NoTables]

\* content of a path: nothing there, bytes that are no gzip JSON, or an artifact
AbsentFile == [kind |-> "absent", data |-> EmptyBackup]
CorruptFile == [kind |-> "corrupt", data |-> EmptyBackup]
BackupFile(bd) == [kind |-> "backup", data |-> bd]

\* the file create_backup writes, a file that is no artifact, a path with no file
BackupPath == "backup_1.backup.gz"
InvalidPath == "invalid.backup.gz"
NonexistentPath == "nonexistent.backup.gz"
Paths == {BackupPath, InvalidPath, NonexistentPath}

\* DiffSummary; present = FALSE stands for None
NoDiff ==
    [present |-> FALSE, tables |-> NoTables, total_current_rows |-> 0,
     total_backup_rows |-> 0, total_diff |-> 0]

\* an operator's outcome: a value, or the exception it raised
Ok(v) == [err |-> "", val |-> v]
Raise(e, v) == [err |-> e, val |-> v]

\* a load that takes whatever is at the path for an empty snapshot
LoadBackupLenient(fs, path) ==
    IF fs[path].kind = "backup" THEN Ok(fs[path].data) ELSE Ok(EmptyBackup)

\* backup_path.exists(), read_bytes, gzip.decompress, model_validate_json
LoadBackup(fs, path) ==
    IF fs[path].kind = "absent" THEN Raise("Backup file not found", EmptyBackup)
    ELSE IF fs[path].kind = "corrupt" THEN Raise("Not a gzipped file", EmptyBackup)
    ELSE Ok(fs[path].data)

----------------------------------------------------------------------------
(* Reading the live database *)

\* get_current_migration_version: the first version_num, "" when there is none;
\* a RuntimeError when the table cannot be read
get_current_migration_version(cat, rws) ==
    IF AlembicTable \notin cat
    THEN Raise("Failed to get migration version", "")
    ELSE IF rws[AlembicTable] = {} THEN Ok("")
    ELSE Ok(CHOOSE v \in rws[AlembicTable] : TRUE)

\* a counting connection that deletes what it counted
AfterReadDeletes(rws) == [t \in DOMAIN rws |-> IF t \in DataTables THEN {} ELSE rws[t]]

\* with engine.connect() as conn: the committed rows once a connection that only
\* ran SELECT statements is closed
AfterRead(rws) == rws

\* select(func.count()).select_from(table_obj)
CountRows(rws, t) == Cardinality(rws[t])

\* create_backup, the loop body: one table's TableBackup
SnapshotTable(rws, t) ==
    LET fetched == FetchAll(rws[t])
    IN  [row_count |-> Len(fetched),
         columns |-> Columns(t),
         data |-> [i \in 1..Len(fetched) |->
                     [j \in 1..Len(fetched[i]) |-> _serialize_value(fetched[i][j])]]]

\* a capture that leaves out the tables holding no rows
SnapshotTableNamesNonEmpty(cat, rws) == {t \in cat \ {AlembicTable} : rws[t] # {}}

\* the tables create_backup captures: all but alembic_version
SnapshotTableNames(cat, rws) == cat \ {AlembicTable}

\* create_backup up to the BackupData it builds
BuildBackup(cat, rws) ==
    LET version == get_current_migration_version(cat, rws)
    IN  IF version.err # "" THEN Raise(version.err, EmptyBackup)
        ELSE Ok([migration_version |-> version.val,
                 tables |-> [t \in SnapshotTableNames(cat, rws) |-> SnapshotTable(rws, t)]])

----------------------------------------------------------------------------
(* calculate_diff *)

\* a TableDiff with the sign of diff turned round
TableDiffFlipped(current, backup) ==
    [current_rows |-> current, backup_rows |-> backup, diff |-> current - backup]

\* lines 286-290
TableDiff(current, backup) ==
    [current_rows |-> current, backup_rows |-> backup, diff |-> backup - current]

\* first loop: the tables of the snapshot
BackupTableDiff(bd, cat, rws, t) ==
    TableDiff(IF t \in cat THEN CountRows(rws, t) ELSE 0, bd.tables[t].row_count)

\* a second loop that forgets to leave out alembic_version
OnlyInCurrentWithAlembic(bd, cat) == cat \ DOMAIN bd.tables

\* second loop: the live tables the snapshot does not have
OnlyInCurrent(bd, cat) == (cat \ DOMAIN bd.tables) \ {AlembicTable}

LiveOnlyTableDiff(rws, t) ==
    [current_rows |-> CountRows(rws, t), backup_rows |-> 0, diff |-> 0 - CountRows(rws, t)]

DiffTables(bd, cat, rws) ==
    [t \in DOMAIN bd.tables \cup OnlyInCurrent(bd, cat) |->
        IF t \in DOMAIN bd.tables THEN BackupTableDiff(bd, cat, rws, t)
        ELSE LiveOnlyTableDiff(rws, t)]

\* a total that misses the second loop
TotalCurrentRowsFirstLoop(bd, cat, rws) ==
    Sum([t \in DOMAIN bd.tables |-> BackupTableDiff(bd, cat, rws, t).current_rows],
        DOMAIN bd.tables)

\* total_current_rows: accumulated in both loops
TotalCurrentRows(bd, cat, rws) ==
    Sum([t \in DOMAIN bd.tables |-> BackupTableDiff(bd, cat, rws, t).current_rows],
        DOMAIN bd.tables)
    + Sum([t \in OnlyInCurrent(bd, cat) |-> LiveOnlyTableDiff(rws, t).current_rows],
          OnlyInCurrent(bd, cat))

\* total_backup_rows: accumulated in the first loop
TotalBackupRows(bd) ==
    Sum([t \in DOMAIN bd.tables |-> bd.tables[t].row_count], DOMAIN bd.tables)

\* calculate_diff: the DiffSummary, or the RuntimeError wrapping the cause
calculate_diff(fs, path, cat, rws) ==
    LET loaded == LoadBackup(fs, path)
    IN  IF loaded.err # "" THEN Raise(loaded.err, NoDiff)
        ELSE LET bd == loaded.val
             IN  Ok([present |-> TRUE,
                     tables |-> DiffTables(bd, cat, rws),
                     total_current_rows |-> TotalCurrentRows(bd, cat, rws),
                     total_backup_rows |-> TotalBackupRows(bd),
                     total_diff |-> TotalBackupRows(bd) - TotalCurrentRows(bd, cat, rws)])

----------------------------------------------------------------------------
(* restore_backup: the statements of its transaction *)

EmptyRows == [t \in AllTables |-> {}]

\* the transaction of engine.begin(): state "none" before it is opened, then
\* "open", then "committed" or "rolledback"; rows is the view of its connection
NoTx == [state |-> "none", rows |-> EmptyRows]

\* a truncation that deletes nothing
TruncateTableNoop(txr, t) == txr

\* step 1, one iteration: delete(table_obj) on the transaction's connection
TruncateTable(txr, t) == [txr EXCEPT ![t] = {}]

\* the tables step 1 visits: the catalog's, alembic_version skipped
TruncateOrder(cat) == Filter(TableOrder, cat \ {AlembicTable})

\* a step 2 that leaves the live version in place
AdjustVersionNever(txr, target_version, current_version) == txr

\* step 2: DELETE FROM alembic_version, then INSERT unless the target is empty;
\* nothing when the versions agree
AdjustVersion(txr, target_version, current_version) ==
    IF target_version # current_version
    THEN IF target_version # ""
         THEN [txr EXCEPT ![AlembicTable] = {target_version}]
         ELSE [txr EXCEPT ![AlembicTable] = {}]
    ELSE txr

\* the tables step 3 visits: backup_data.tables.items()
InsertOrder(bd) == Filter(TableOrder, DOMAIN bd.tables)

\* dict(zip(columns, row_data)), each value through _deserialize_value(v)
RowDict(columns, row_data) ==
    LET n == IF Len(columns) < Len(row_data) THEN Len(columns) ELSE Len(row_data)
    IN  [c \in {columns[i] : i \in 1..n} |->
            _deserialize_value(
                row_data[CHOOSE i \in 1..n :
                            columns[i] = c /\ \A j \in (i + 1)..n : columns[j] # c],
                "")]

\* table_obj.insert().values(**deserialized_dict): the row PostgreSQL stores, in
\* the live column order; a column the dict lacks is NULL
StoredRow(t, d) ==
    [j \in 1..Len(Columns(t)) |->
        IF Columns(t)[j] \in DOMAIN d
        THEN PgStore(ColumnType(t, Columns(t)[j]), d[Columns(t)[j]])
        ELSE PyNone]

\* conn.execute(insert_stmt) on the rows S of table t
InsertRow(t, S, d) ==
    IF \E c \in DOMAIN d : d[c].t = "raise"
    THEN Raise((CHOOSE v \in Range([c \in DOMAIN d |-> d[c]]) : v.t = "raise").s, S)
    ELSE IF ~(DOMAIN d \subseteq Range(Columns(t))) THEN Raise("Unconsumed column names", S)
    ELSE IF \E j \in 1..Len(Columns(t)) : StoredRow(t, d)[j] = PgError
         THEN Raise("DataError", S)
    ELSE IF \E r \in S : r[1] = StoredRow(t, d)[1] THEN Raise("IntegrityError", S)
    ELSE Ok(S \cup {StoredRow(t, d)})

\* an inner loop that stops one row early
RECURSIVE InsertRowsDropLast(_, _, _, _)
InsertRowsDropLast(t, S, tb, from) ==
    IF from >= Len(tb.data) THEN Ok(S)
    ELSE LET one == InsertRow(t, S, RowDict(tb.columns, tb.data[from]))
         IN  IF one.err # "" THEN one ELSE InsertRowsDropLast(t, one.val, tb, from + 1)

\* the inner loop of step 3 over data[from..], stopping at the first error
RECURSIVE InsertRows(_, _, _, _)
InsertRows(t, S, tb, from) ==
    IF from > Len(tb.data) THEN Ok(S)
    ELSE LET one == InsertRow(t, S, RowDict(tb.columns, tb.data[from]))
         IN  IF one.err # "" THEN one ELSE InsertRows(t, one.val, tb, from + 1)

\* a step 3 that skips a table the live schema does not have
RestoreTableSkipMissing(cat, txr, t, tb) ==
    IF t \notin cat THEN Ok(txr)
    ELSE LET ins == InsertRows(t, txr[t], tb, 1)
         IN  [err |-> ins.err, val |-> [txr EXCEPT ![t] = ins.val]]

\* step 3, one iteration for a table with row_count # 0: reflect the table, then
\* insert its rows
RestoreTable(cat, txr, t, tb) ==
    IF t \notin cat THEN Raise("NoSuchTableError", txr)
    ELSE LET ins == InsertRows(t, txr[t], tb, 1)
         IN  [err |-> ins.err, val |-> [txr EXCEPT ![t] = ins.val]]

\* a commit that loses the statements of the transaction
CommitDropsWork(rws, txr) == rws

\* engine.begin(): what the database holds once the block is left normally
Commit(rws, txr) == txr

\* a rollback that keeps the statements already executed
RollbackKeepsWork(rws, txr) == txr

\* the with block left by an exception
Rollback(rws, txr) == rws

----------------------------------------------------------------------------
(* The state machine *)

NoCall == [op |-> "", path |-> "", show_diff |-> FALSE]

NoCounts == [tables |-> 0, rows |-> 0]

NoPre == [catalog |-> {}, rows |-> EmptyRows, files |-> [p \in Paths |-> AbsentFile]]

\* what a call hands back: kind "RestoreResult", "DiffSummary" or "Path" for a
\* returned value, "RuntimeError" for a raised exception
NoResult ==
    [kind |-> "", success |-> FALSE, message |-> "", diff_summary |-> NoDiff,
     restored_tables |-> 0, restored_rows |-> 0]

RestoreResult(ok, msg, ds, nt, nr) ==
    [kind |-> "RestoreResult", success |-> ok, message |-> msg, diff_summary |-> ds,
     restored_tables |-> nt, restored_rows |-> nr]

\* a success result that forgets the diff
SuccessResultNoDiff(ds, counts) ==
    RestoreResult(TRUE, "Restored", NoDiff, counts.tables, counts.rows)

\* lines 490-496: the result after the commit
SuccessResult(ds, counts) ==
    RestoreResult(TRUE, "Restored", ds, counts.tables, counts.rows)

\* a failure result that reports the tables and rows inserted before the error
FailureResultWithCounts(e, ds, counts) ==
    RestoreResult(FALSE, e, ds, counts.tables, counts.rows)

\* lines 501-507: the result the except clause builds
FailureResult(e, ds, counts) == RestoreResult(FALSE, e, ds, 0, 0)

NoEdits == [t \in DataTables |-> [ins |-> 0, del |-> 0]]

\* no value is on its way through the codec
NoCodec == [stage |-> "", hinted |-> FALSE, v |-> PyNone, enc |-> PyNone, dec |-> PyNone]

\* the retention sweep has not run; BACKUP_RETENTION_DAYS is unset
NoSweep == [setting |-> 0, ran |-> FALSE, cutoff_date |-> 0, before |-> {}, failed |-> {}]

\* no object storage configured
NoRemote == [configured |-> FALSE, objects |-> {}]

\* SessionService's last answer: none yet
NoAnswer ==
    [op |-> "", old |-> 0, user_agent |-> "", ret |-> 0, held |-> PyNone, before |-> {}]

\* an empty sessions table, no session id generated yet
NoStore == [sessions |-> {}, generated |-> 0, last |-> NoAnswer]

\* no BatchTask.run() in progress
NoTask ==
    [pc |-> "idle", execute |-> "", on_success |-> "", on_failure |-> "",
     events |-> <<>>, error |-> "", raised |-> "", runs |-> 0]

\* no `backup restore` command runs
NoCli ==
    [pc |-> "", path |-> "", dry_run |-> FALSE, yes |-> FALSE, log |-> <<>>,
     catalog |-> {}, rows |-> EmptyRows]

\* a fresh database at revision r1, no engine call running
InitEngine ==
    /\ catalog = AllTables
    /\ rows = [EmptyRows EXCEPT ![AlembicTable] = {"r1"}]
    /\ files = [p \in Paths |-> IF p = InvalidPath THEN CorruptFile ELSE AbsentFile]
    /\ pc = "idle"
    /\ call = NoCall
    /\ backup_data = EmptyBackup
    /\ diff_summary = NoDiff
    /\ tx = NoTx
    /\ todo = <<>>
    /\ restored = NoCounts
    /\ exc = ""
    /\ result = NoResult
    /\ pre = NoPre
    /\ prev = ""
    /\ edits = NoEdits

Init ==
    /\ InitEngine
    /\ codec = NoCodec
    /\ cli = NoCli
    /\ clock = 0
    /\ dir = {}
    /\ sweep = NoSweep
    /\ made = <<>>
    /\ seen = {}
    /\ remote = NoRemote
    /\ store = NoStore
    /\ task = NoTask

locals == <<backup_data, diff_summary, tx, todo, restored, exc>>

(* Other clients of the database, between engine calls *)

\* a committed INSERT of row r into table t
InsertCommitted(t, r) ==
    /\ pc = "idle"
    /\ t \in catalog \cap DataTables
    /\ r \in RowDomain(t)
    /\ \A x \in rows[t] : x[1] # r[1]
    /\ rows' = [rows EXCEPT ![t] = @ \cup {r}]
    /\ prev' = ""
    /\ UNCHANGED <<catalog, files, pc, call, locals, result, pre, others>>

\* a committed DELETE of row r of table t
DeleteCommitted(t, r) ==
    /\ pc = "idle"
    /\ t \in catalog \cap DataTables
    /\ r \in rows[t]
    /\ rows' = [rows EXCEPT ![t] = @ \ {r}]
    /\ prev' = ""
    /\ UNCHANGED <<catalog, files, pc, call, locals, result, pre, others>>

ClientInsert(t, r) == InsertCommitted(t, r) /\ UNCHANGED edits

ClientDelete(t, r) == DeleteCommitted(t, r) /\ UNCHANGED edits

DropTable(t) ==
    /\ pc = "idle"
    /\ t \in catalog
    /\ catalog' = catalog \ {t}
    /\ rows' = [rows EXCEPT ![t] = {}]
    /\ prev' = ""
    /\ UNCHANGED <<files, pc, call, locals, result, pre, edits, others>>

CreateTable(t) ==
    /\ pc = "idle"
    /\ t \in AllTables \ catalog
    /\ catalog' = catalog \cup {t}
    /\ prev' = ""
    /\ UNCHANGED <<rows, files, pc, call, locals, result, pre, edits, others>>

\* the migration runner moves the database to another revision ("" is base)
Migrate(rev) ==
    /\ pc = "idle"
    /\ AlembicTable \in catalog
    /\ rows[AlembicTable] # (IF rev = "" THEN {} ELSE {rev})
    /\ rows' = [rows EXCEPT ![AlembicTable] = IF rev = "" THEN {} ELSE {rev}]
    /\ prev' = ""
    /\ UNCHANGED <<catalog, files, pc, call, locals, result, pre, edits, others>>

(* Engine calls *)

\* a caller enters an engine function
Enter(op, path, show_diff, first) ==
    /\ pc = "idle"
    /\ call' = [op |-> op, path |-> path, show_diff |-> show_diff]
    /\ pc' = first
    /\ pre' = [catalog |-> catalog, rows |-> rows, files |-> files]
    /\ result' = NoResult
    /\ UNCHANGED <<catalog, rows, files, locals, prev, edits>>

Call(op, path, show_diff, first) == Enter(op, path, show_diff, first) /\ UNCHANGED others

\* the caller takes the result; the call's locals are gone
Leave ==
    /\ pc = "done"
    /\ pc' = "idle"
    /\ prev' = IF call.op = "restore_backup" /\ result.success THEN call.path ELSE ""
    /\ call' = NoCall
    /\ backup_data' = EmptyBackup
    /\ diff_summary' = NoDiff
    /\ tx' = NoTx
    /\ todo' = <<>>
    /\ restored' = NoCounts
    /\ exc' = ""
    /\ result' = NoResult
    /\ pre' = NoPre
    /\ UNCHANGED <<catalog, rows, files, edits>>

Return == Leave /\ UNCHANGED others

(* create_backup *)

CreateBackupCall == Call("create_backup", BackupPath, FALSE, "b_run")

\* how output_path.write_bytes(compressed_data) can end: all bytes written;
\* the file could not be opened; an error after the file was opened and cut
WriteOutcomes == {"ok", "refused", "torn"}

\* line 216: the file is opened for writing in place, which cuts it to length
\* zero, and the bytes follow
WriteBytes(fs, path, bd, write) ==
    IF write = "ok" THEN Ok([fs EXCEPT ![path] = BackupFile(bd)])
    ELSE IF write = "torn" THEN Raise("OSError", [fs EXCEPT ![path] = CorruptFile])
    ELSE Raise("OSError", fs)

\* the whole build; db_ok = FALSE is a database error on the way
BuildAndWrite(db_ok, write) ==
    /\ pc = "b_run"
    /\ LET built == BuildBackup(catalog, rows)
           written == WriteBytes(files, call.path, built.val, write)
       IN  IF db_ok /\ built.err = ""
           THEN /\ files' = written.val
                /\ result' = IF written.err = ""
                             THEN [NoResult EXCEPT !.kind = "Path", !.success = TRUE,
                                                   !.message = call.path]
                             ELSE [NoResult EXCEPT !.kind = "RuntimeError",
                                                   !.message = written.err]
           ELSE /\ files' = files
                /\ result' = [NoResult EXCEPT !.kind = "RuntimeError",
                                !.message = IF built.err # "" THEN built.err
                                            ELSE "OperationalError"]
    /\ rows' = AfterRead(rows)
    /\ pc' = "done"
    /\ UNCHANGED <<catalog, call, locals, pre, prev, others>>

CreateBackupRun(db_ok, write) == BuildAndWrite(db_ok, write) /\ UNCHANGED edits

(* calculate_diff *)

CalculateDiffCall(path) == Call("calculate_diff", path, FALSE, "d_run")

CalculateDiffRun(db_ok) ==
    /\ pc = "d_run"
    /\ LET d == calculate_diff(files, call.path, catalog, rows)
       IN  IF db_ok /\ d.err = ""
           THEN result' = [NoResult EXCEPT !.kind = "DiffSummary", !.success = TRUE,
                                           !.diff_summary = d.val]
           ELSE result' = [NoResult EXCEPT !.kind = "RuntimeError",
                              !.message = IF d.err # "" THEN d.err
                                          ELSE "OperationalError"]
    /\ rows' = AfterRead(rows)
    /\ pc' = "done"
    /\ UNCHANGED <<catalog, files, call, locals, pre, prev, edits, others>>

(* restore_backup *)

RestoreCall(path, show_diff) == Call("restore_backup", path, show_diff, "r_load")

\* an exception inside the try block: on to the except clause
Except(e) ==
    /\ exc' = e
    /\ pc' = "r_except"

\* exists / read_bytes / decompress / validate
RestoreLoad ==
    /\ pc = "r_load"
    /\ LET loaded == LoadBackup(files, call.path)
       IN  IF loaded.err # ""
           THEN /\ Except(loaded.err)
                /\ backup_data' = backup_data
           ELSE /\ backup_data' = loaded.val
                /\ exc' = exc
                /\ pc' = IF call.show_diff THEN "r_diff" ELSE "r_begin"
    /\ UNCHANGED <<catalog, rows, files, call, diff_summary, tx, todo, restored,
                   result, pre, prev, edits, others>>

\* if show_diff: diff_summary = calculate_diff(backup_path)
RestoreDiff(db_ok) ==
    /\ pc = "r_diff"
    /\ LET d == calculate_diff(files, call.path, catalog, rows)
       IN  IF db_ok /\ d.err = ""
           THEN /\ diff_summary' = d.val
                /\ exc' = exc
                /\ pc' = "r_begin"
           ELSE /\ Except(IF d.err # "" THEN d.err ELSE "OperationalError")
                /\ diff_summary' = diff_summary
    /\ rows' = AfterRead(rows)
    /\ UNCHANGED <<catalog, files, call, backup_data, tx, todo, restored,
                   result, pre, prev, edits, others>>

\* with engine.begin() as conn, and the catalog's tables listed
RestoreBegin ==
    /\ pc = "r_begin"
    /\ tx' = [state |-> "open", rows |-> rows]
    /\ todo' = TruncateOrder(catalog)
    /\ pc' = "r_truncate"
    /\ UNCHANGED <<catalog, rows, files, call, backup_data, diff_summary, restored,
                   exc, result, pre, prev, edits, others>>

\* step 1, one iteration
RestoreTruncate ==
    /\ pc = "r_truncate"
    /\ todo # <<>>
    /\ tx' = [tx EXCEPT !.rows = TruncateTable(tx.rows, Head(todo))]
    /\ todo' = Tail(todo)
    /\ UNCHANGED <<catalog, rows, files, pc, call, backup_data, diff_summary,
                   restored, exc, result, pre, prev, edits, others>>

\* step 2; the current version is read on a connection of its own, which sees
\* the committed rows
RestoreVersion ==
    /\ pc = "r_truncate"
    /\ todo = <<>>
    /\ LET current_version == get_current_migration_version(catalog, rows)
       IN  IF current_version.err # ""
           THEN /\ Except(current_version.err)
                /\ UNCHANGED <<tx, todo>>
           ELSE /\ tx' = [tx EXCEPT !.rows = AdjustVersion(tx.rows,
                                                backup_data.migration_version,
                                                current_version.val)]
                /\ todo' = InsertOrder(backup_data)
                /\ exc' = exc
                /\ pc' = "r_insert"
    /\ UNCHANGED <<catalog, rows, files, call, backup_data, diff_summary, restored,
                   result, pre, prev, edits, others>>

\* step 3, one iteration
RestoreInsert ==
    /\ pc = "r_insert"
    /\ todo # <<>>
    /\ LET t == Head(todo)
           tb == backup_data.tables[t]
       IN  IF tb.row_count = 0
           THEN /\ todo' = Tail(todo)
                /\ UNCHANGED <<tx, restored, exc, pc>>
           ELSE LET done == RestoreTable(catalog, tx.rows, t, tb)
                IN  /\ tx' = [tx EXCEPT !.rows = done.val]
                    /\ IF done.err # ""
                       THEN /\ Except(done.err)
                            /\ UNCHANGED <<todo, restored>>
                       ELSE /\ todo' = Tail(todo)
                            /\ restored' = [tables |-> restored.tables + 1,
                                            rows |-> restored.rows + tb.row_count]
                            /\ UNCHANGED <<exc, pc>>
    /\ UNCHANGED <<catalog, rows, files, call, backup_data, diff_summary, result,
                   pre, prev, edits, others>>

\* a statement of the transaction fails in the database (connection lost,
\* constraint, lock timeout): the exception leaves the with block
RestoreDbError ==
    /\ pc \in {"r_begin", "r_truncate", "r_insert"}
    /\ Except("OperationalError")
    /\ UNCHANGED <<catalog, rows, files, call, backup_data, diff_summary, tx, todo,
                   restored, result, pre, prev, edits, others>>

\* the with block is left normally: commit, then the success result
RestoreCommit ==
    /\ pc = "r_insert"
    /\ todo = <<>>
    /\ rows' = Commit(rows, tx.rows)
    /\ tx' = [tx EXCEPT !.state = "committed"]
    /\ result' = SuccessResult(diff_summary, restored)
    /\ pc' = "done"
    /\ UNCHANGED <<catalog, files, call, backup_data, diff_summary, todo, restored,
                   exc, pre, prev, edits, others>>

\* except Exception: the transaction, if one is open, is rolled back by the with
\* block; the failure result
RestoreExcept ==
    /\ pc = "r_except"
    /\ rows' = IF tx.state = "open" THEN Rollback(rows, tx.rows) ELSE rows
    /\ tx' = IF tx.state = "open" THEN [tx EXCEPT !.state = "rolledback"] ELSE tx
    /\ result' = FailureResult(exc, diff_summary, restored)
    /\ pc' = "done"
    /\ UNCHANGED <<catalog, files, call, backup_data, diff_summary, todo, restored,
                   exc, pre, prev, edits, others>>

Next ==
    \/ \E t \in DataTables : \E r \in RowDomain(t) : ClientInsert(t, r)
    \/ \E t \in DataTables : \E r \in RowDomain(t) : ClientDelete(t, r)
    \/ \E t \in AllTables : DropTable(t)
    \/ \E t \in AllTables : CreateTable(t)
    \/ \E rev \in Revisions \cup {""} : Migrate(rev)
    \/ CreateBackupCall
    \/ \E db_ok \in BOOLEAN : \E write \in WriteOutcomes : CreateBackupRun(db_ok, write)
    \/ \E path \in Paths : CalculateDiffCall(path)
    \/ \E db_ok \in BOOLEAN : CalculateDiffRun(db_ok)
    \/ \E path \in Paths : \E show_diff \in BOOLEAN : RestoreCall(path, show_diff)
    \/ RestoreLoad
    \/ \E db_ok \in BOOLEAN : RestoreDiff(db_ok)
    \/ RestoreBegin
    \/ RestoreTruncate
    \/ RestoreVersion
    \/ RestoreInsert
    \/ RestoreDbError
    \/ RestoreCommit
    \/ RestoreExcept
    \/ Return

Spec == Init /\ [][Next]_vars

----------------------------------------------------------------------------
(* A snapshot followed by counted row inserts and deletes: the same calls, *)
(* with every committed insert and delete since the last snapshot counted. *)

TotalEdits ==
    Sum([t \in DataTables |-> edits[t].ins + edits[t].del], DataTables)

CountedInsert(t, r) ==
    /\ TotalEdits < MaxEdits
    /\ InsertCommitted(t, r)
    /\ edits' = [edits EXCEPT ![t].ins = @ + 1]

CountedDelete(t, r) ==
    /\ TotalEdits < MaxEdits
    /\ DeleteCommitted(t, r)
    /\ edits' = [edits EXCEPT ![t].del = @ + 1]

\* a snapshot that was written starts the count again
CountedBackupRun(db_ok, write) ==
    /\ BuildAndWrite(db_ok, write)
    /\ edits' = IF result'.kind = "Path" THEN NoEdits ELSE edits

NextEdits ==
    \/ \E t \in DataTables : \E r \in RowDomain(t) : CountedInsert(t, r)
    \/ \E t \in DataTables : \E r \in RowDomain(t) : CountedDelete(t, r)
    \/ CreateBackupCall
    \/ \E db_ok \in BOOLEAN : \E write \in WriteOutcomes : CountedBackupRun(db_ok, write)
    \/ CalculateDiffCall(BackupPath)
    \/ \E db_ok \in BOOLEAN : CalculateDiffRun(db_ok)
    \/ Return

SpecEdits == Init /\ [][NextEdits]_vars

----------------------------------------------------------------------------
(* The value codec on its own: a cell value is encoded as create_backup      *)
(* encodes it and decoded either with the type of its column as the hint or  *)
(* as restore_backup decodes the cells of a snapshot row, with no hint.      *)

InitCodec ==
    /\ InitEngine
    /\ \E v \in CellValues : \E hinted \in BOOLEAN :
          codec = [NoCodec EXCEPT !.stage = "value", !.hinted = hinted, !.v = v]
    /\ cli = NoCli
    /\ clock = 0
    /\ dir = {}
    /\ sweep = NoSweep
    /\ made = <<>>
    /\ seen = {}
    /\ remote = NoRemote
    /\ store = NoStore
    /\ task = NoTask

\* line 176: _serialize_value(val)
Serialize ==
    /\ codec.stage = "value"
    /\ codec' = [codec EXCEPT !.stage = "encoded", !.enc = _serialize_value(codec.v)]
    /\ UNCHANGED <<engine, cli, clock, dir, sweep, made, seen, remote, store, task>>

\* _deserialize_value(v, column_type), or line 475: _deserialize_value(v)
Deserialize ==
    /\ codec.stage = "encoded"
    /\ codec' = [codec EXCEPT
                   !.stage = "decoded",
                   !.dec = _deserialize_value(codec.enc,
                               IF codec.hinted THEN ColumnTypeOf(codec.v) ELSE "")]
    /\ UNCHANGED <<engine, cli, clock, dir, sweep, made, seen, remote, store, task>>

NextCodec == Serialize \/ Deserialize

\* any JSON value of an artifact, however it was made, is handed to the decoder
InitDecode ==
    /\ InitEngine
    /\ \E j \in JsonValues : codec = [NoCodec EXCEPT !.stage = "json", !.enc = j]
    /\ cli = NoCli
    /\ clock = 0
    /\ dir = {}
    /\ sweep = NoSweep
    /\ made = <<>>
    /\ seen = {}
    /\ remote = NoRemote
    /\ store = NoStore
    /\ task = NoTask

\* _deserialize_value(value, column_type)
DecodeJson(column_type) ==
    /\ codec.stage = "json"
    /\ codec' = [codec EXCEPT !.stage = "decoded", !.hinted = column_type # "",
                              !.v = PyStr(column_type, 0),
                              !.dec = _deserialize_value(codec.enc, column_type)]
    /\ UNCHANGED <<engine, cli, clock, dir, sweep, made, seen, remote, store, task>>

NextDecode == \E column_type \in ColumnTypes : DecodeJson(column_type)

SpecDecode == InitDecode /\ [][NextDecode]_vars

SpecCodec == InitCodec /\ [][NextCodec]_vars

----------------------------------------------------------------------------
(* The command `backup restore` of utils/backup_cli.py over a local file:    *)
(* it checks the file, shows the diff, asks, and calls the engine.  Other    *)
(* clients and other callers act while no command runs.                      *)

InitCli ==
    /\ InitEngine
    /\ codec = NoCodec
    /\ cli = NoCli
    /\ clock = 0
    /\ dir = {}
    /\ sweep = NoSweep
    /\ made = <<>>
    /\ seen = {}
    /\ remote = NoRemote
    /\ store = NoStore
    /\ task = NoTask

CliLog(event) == [cli EXCEPT !.log = Append(@, event)]

\* a branch that takes every run without --dry-run straight to the restore
AfterFileCheckNoPrompt(dry_run, yes) ==
    IF dry_run THEN "c_dry" ELSE "c_restore"

\* lines 269, 288, 310: where the command goes once the file is there
AfterFileCheck(dry_run, yes) ==
    IF dry_run THEN "c_dry"
    ELSE IF ~yes THEN "c_diff"
    ELSE "c_restore"

\* the command is started with its options
BackupRestore(path, dry_run, yes) ==
    /\ cli.pc = ""
    /\ pc = "idle"
    /\ cli' = [pc |-> "c_check", path |-> path, dry_run |-> dry_run, yes |-> yes,
               log |-> <<>>, catalog |-> catalog, rows |-> rows]
    /\ UNCHANGED <<engine, codec, clock, dir, sweep, made, seen, remote, store, task>>

\* lines 262-266: restore_path.exists()
CliCheckFile ==
    /\ cli.pc = "c_check"
    /\ cli' = IF files[cli.path].kind = "absent"
              THEN [CliLog("abort") EXCEPT !.pc = "c_done"]
              ELSE [cli EXCEPT !.pc = AfterFileCheck(cli.dry_run, cli.yes)]
    /\ UNCHANGED <<engine, codec, clock, dir, sweep, made, seen, remote, store, task>>

\* lines 271 and 290: diff_summary = calculate_diff(restore_path)
CliCalculateDiff ==
    /\ cli.pc \in {"c_dry", "c_diff"}
    /\ Enter("calculate_diff", cli.path, FALSE, "d_run")
    /\ cli' = [CliLog("calculate_diff") EXCEPT !.pc = cli.pc \o "_wait"]
    /\ UNCHANGED <<codec, clock, dir, sweep, made, seen, remote, store, task>>

\* lines 273-285: the diff is printed and the dry run ends; an exception of
\* calculate_diff goes to the except clause
CliDryRunPrint ==
    /\ cli.pc = "c_dry_wait"
    /\ Leave
    /\ cli' = [CliLog(IF result.kind = "DiffSummary" THEN "print_diff" ELSE "abort")
                 EXCEPT !.pc = "c_done"]
    /\ UNCHANGED <<codec, clock, dir, sweep, made, seen, remote, store, task>>

\* lines 292-302: the diff is printed before the prompt
CliPrintDiff ==
    /\ cli.pc = "c_diff_wait"
    /\ Leave
    /\ cli' = IF result.kind = "DiffSummary"
              THEN [CliLog("print_diff") EXCEPT !.pc = "c_confirm"]
              ELSE [CliLog("abort") EXCEPT !.pc = "c_done"]
    /\ UNCHANGED <<codec, clock, dir, sweep, made, seen, remote, store, task>>

\* lines 304-308: click.confirm(..., abort=True)
CliConfirm(accepted) ==
    /\ cli.pc = "c_confirm"
    /\ cli' = IF accepted
              THEN [cli EXCEPT !.log = @ \o <<"prompt", "accepted">>, !.pc = "c_restore"]
              ELSE [cli EXCEPT !.log = @ \o <<"prompt", "abort">>, !.pc = "c_done"]
    /\ UNCHANGED <<engine, codec, clock, dir, sweep, made, seen, remote, store, task>>

\* line 312: result = restore_backup(restore_path, show_diff=False)
CliRestore ==
    /\ cli.pc = "c_restore"
    /\ Enter("restore_backup", cli.path, FALSE, "r_load")
    /\ cli' = [CliLog("restore_backup") EXCEPT !.pc = "c_restore_wait"]
    /\ UNCHANGED <<codec, clock, dir, sweep, made, seen, remote, store, task>>

\* lines 314-318: the result is reported
CliReport ==
    /\ cli.pc = "c_restore_wait"
    /\ Leave
    /\ cli' = [CliLog(IF result.success THEN "restored" ELSE "abort")
                 EXCEPT !.pc = "c_done"]
    /\ UNCHANGED <<codec, clock, dir, sweep, made, seen, remote, store, task>>

\* the command's process ends
CliExit ==
    /\ cli.pc = "c_done"
    /\ cli' = NoCli
    /\ UNCHANGED <<engine, codec, clock, dir, sweep, made, seen, remote, store, task>>

NextCli ==
    \/ /\ cli.pc = ""
       /\ \/ \E t \in DataTables : \E r \in RowDomain(t) : ClientInsert(t, r)
          \/ \E t \in DataTables : \E r \in RowDomain(t) : ClientDelete(t, r)
          \/ CreateBackupCall
          \/ Return
    \/ \E db_ok \in BOOLEAN : \E write \in WriteOutcomes : CreateBackupRun(db_ok, write)
    \/ \E path \in Paths : \E dry_run, yes \in BOOLEAN : BackupRestore(path, dry_run, yes)
    \/ CliCheckFile
    \/ CliCalculateDiff
    \/ \E db_ok \in BOOLEAN : CalculateDiffRun(db_ok)
    \/ CliDryRunPrint
    \/ CliPrintDiff
    \/ \E accepted \in BOOLEAN : CliConfirm(accepted)
    \/ CliRestore
    \/ RestoreLoad
    \/ RestoreBegin
    \/ RestoreTruncate
    \/ RestoreVersion
    \/ RestoreInsert
    \/ RestoreDbError
    \/ RestoreCommit
    \/ RestoreExcept
    \/ CliReport
    \/ CliExit

SpecCli == InitCli /\ [][NextCli]_vars

----------------------------------------------------------------------------
(* File names and the wall clock.  The clock counts ticks of half a second   *)
(* of local time; a name backup_<stamp>.<ext> carries the stamp as text.     *)

TicksPerSecond == 2

\* timedelta(days=1)
Day == 86400 * TicksPerSecond

\* the characters of a stamp; strftime pads every field with zeros
StampWidth == 7

\* the decimal digits of n, most significant first, padded with zeros to w
RECURSIVE Digits(_, _)
Digits(n, w) == IF w = 0 THEN <<>> ELSE Append(Digits(n \div 10, w - 1), n % 10)

\* the number a text of decimal digits stands for
RECURSIVE Number(_)
Number(ds) ==
    IF ds = <<>> THEN 0
    ELSE 10 * Number(SubSeq(ds, 1, Len(ds) - 1)) + ds[Len(ds)]

\* datetime.now().strftime("%Y%m%d_%H%M%S"): the whole seconds of the instant,
\* as text of fixed width; the fraction of the second is dropped
strftime(now) == Digits(now \div TicksPerSecond, StampWidth)

\* datetime.strptime(timestamp_str, "%Y%m%d_%H%M%S"): the instant, or ValueError
\* for a text that is not of this format (a character 10 is no digit)
strptime(timestamp_str) ==
    IF Len(timestamp_str) = StampWidth /\ \A i \in 1..StampWidth : timestamp_str[i] \in 0..9
    THEN Ok(Number(timestamp_str) * TicksPerSecond)
    ELSE Raise("ValueError", 0)

\* the file backup_<stamp>.<ext>, written by the by-th create_backup call (0 for
\* any other writer)
NamedFile(stamp, ext, by) == [stamp |-> stamp, ext |-> ext, by |-> by]

\* backup_latest.dump, a name whose stamp does not parse
StrayFile == NamedFile(<<10>>, "dump", 0)

\* a file written under a name replaces the file of that name
WriteNamed(d, f) == {g \in d : g.stamp # f.stamp \/ g.ext # f.ext} \cup {f}

\* time passes
Tick(d, limit) ==
    /\ clock + d <= limit
    /\ clock' = clock + d
    /\ sweep' = [NoSweep EXCEPT !.setting = sweep.setting]
    /\ UNCHANGED <<engine, codec, cli, dir, made, seen, remote, store, task>>

----------------------------------------------------------------------------
(* The retention sweep of batch/tasks/backup.py over the directory ./backups *)
(* that both BackupTask.execute and create_backup write into.                *)

\* values of BACKUP_RETENTION_DAYS: unset, two days
RetentionSettings == {0, 2}

InitSweep ==
    /\ InitEngine
    /\ codec = NoCodec
    /\ cli = NoCli
    /\ clock = 0
    /\ dir \in {{}, {StrayFile}}
    /\ \E setting \in RetentionSettings : sweep = [NoSweep EXCEPT !.setting = setting]
    /\ made = <<>>
    /\ seen = {}
    /\ remote = NoRemote
    /\ store = NoStore
    /\ task = NoTask

\* there is room for the file, or it replaces one of its name
Fits(d, f) == Cardinality(WriteNamed(d, f)) <= MaxFiles

\* BackupTask.execute, lines 69-79: backup_<timestamp>.dump is saved
BatchDump ==
    /\ Fits(dir, NamedFile(strftime(clock), "dump", 0))
    /\ dir' = WriteNamed(dir, NamedFile(strftime(clock), "dump", 0))
    /\ sweep' = [NoSweep EXCEPT !.setting = sweep.setting]
    /\ UNCHANGED <<engine, codec, cli, clock, made, seen, remote, store, task>>

\* create_backup, lines 210-216: backup_<timestamp>.backup.gz is saved
EngineArtifact ==
    /\ Fits(dir, NamedFile(strftime(clock), "backup.gz", 0))
    /\ dir' = WriteNamed(dir, NamedFile(strftime(clock), "backup.gz", 0))
    /\ sweep' = [NoSweep EXCEPT !.setting = sweep.setting]
    /\ UNCHANGED <<engine, codec, cli, clock, made, seen, remote, store, task>>

\* line 165: settings.BACKUP_RETENTION_DAYS or 7
RetentionDays(setting) == IF setting = 0 THEN 7 ELSE setting

\* line 166
CutoffDate(now, setting) == now - RetentionDays(setting) * Day

\* line 171: local_backup_dir.glob("backup_*.dump")
Glob(d) == {f \in d : f.ext = "dump"}

\* lines 174-177: the stamp parses and file_date < cutoff_date
Expired(f, cutoff_date) ==
    strptime(f.stamp).err = "" /\ strptime(f.stamp).val < cutoff_date

\* the files the loop tries to unlink
ToUnlink(d, cutoff_date) == {f \in Glob(d) : Expired(f, cutoff_date)}

\* _cleanup_old_backups; stuck are the files whose unlink raises OSError
CleanupOldBackups(stuck) ==
    LET cutoff_date == CutoffDate(clock, sweep.setting)
    IN  /\ stuck \subseteq ToUnlink(dir, cutoff_date)
        /\ dir' = dir \ (ToUnlink(dir, cutoff_date) \ stuck)
        /\ sweep' = [sweep EXCEPT !.ran = TRUE, !.cutoff_date = cutoff_date,
                                  !.before = dir, !.failed = stuck]
        /\ UNCHANGED <<engine, codec, cli, clock, made, seen, remote, store, task>>

NextSweep ==
    \/ Tick(Day, MaxDays * Day)
    \/ BatchDump
    \/ EngineArtifact
    \/ \E stuck \in SUBSET dir : CleanupOldBackups(stuck)

SpecSweep == InitSweep /\ [][NextSweep]_vars

----------------------------------------------------------------------------
(* create_backup calls, one after the other, and the names they choose: a    *)
(* call starts, reads the database while time passes, and takes the name of  *)
(* its file from the clock at the end.                                       *)

InitNames ==
    /\ InitEngine
    /\ codec = NoCodec
    /\ cli = NoCli
    /\ clock = 0
    /\ dir = {}
    /\ sweep = NoSweep
    /\ made = <<>>
    /\ seen = {}
    /\ remote = NoRemote
    /\ store = NoStore
    /\ task = NoTask

\* the last call has not chosen its name yet
InFlight == made # <<>> /\ made[Len(made)].name = <<>>

\* line 127: a create_backup call begins
BackupStart ==
    /\ ~InFlight
    /\ Len(made) < MaxCalls
    /\ made' = Append(made, [start |-> clock, name |-> <<>>])
    /\ UNCHANGED <<engine, codec, cli, clock, dir, sweep, seen, remote, store, task>>

\* lines 210-226: the name is made from datetime.now(), the file is written and
\* its path returned
BackupName ==
    /\ InFlight
    /\ made' = [made EXCEPT ![Len(made)].name = strftime(clock)]
    /\ dir' = WriteNamed(dir, NamedFile(strftime(clock), "backup.gz", Len(made)))
    /\ UNCHANGED <<engine, codec, cli, clock, sweep, seen, remote, store, task>>

NextNames ==
    \/ Tick(1, MaxTicks)
    \/ BackupStart
    \/ BackupName

SpecNames == InitNames /\ [][NextNames]_vars

----------------------------------------------------------------------------
(* create_backup step by step, while other clients commit: the revision is   *)
(* read on one connection, the table names are listed, and every table is    *)
(* read on a connection of its own, each statement seeing what is committed  *)
(* when it runs.  One build is followed from its start to its return.        *)

InitSnapshot ==
    /\ InitEngine
    /\ codec = NoCodec
    /\ cli = NoCli
    /\ clock = 0
    /\ dir = {}
    /\ sweep = NoSweep
    /\ made = <<>>
    /\ seen = {}
    /\ remote = NoRemote
    /\ store = NoStore
    /\ task = NoTask

\* another client's commit, before or during the build
Committed(new_rows) ==
    /\ pc \in {"idle", "s_version", "s_tables"}
    /\ Cardinality(seen) <= MaxWrites
    /\ rows' = new_rows
    /\ seen' = IF pc = "idle" THEN seen ELSE seen \cup {new_rows}
    /\ UNCHANGED <<catalog, files, pc, call, locals, result, pre, prev, edits,
                   codec, cli, clock, dir, sweep, made, remote, store, task>>

ConcurrentInsert(t, r) ==
    /\ \A x \in rows[t] : x[1] # r[1]
    /\ Committed([rows EXCEPT ![t] = @ \cup {r}])

ConcurrentDelete(t, r) ==
    /\ r \in rows[t]
    /\ Committed([rows EXCEPT ![t] = @ \ {r}])

ConcurrentMigrate(rev) ==
    /\ rows[AlembicTable] # {rev}
    /\ Committed([rows EXCEPT ![AlembicTable] = {rev}])

\* line 127: the build begins
SnapshotStart ==
    /\ Enter("create_backup", BackupPath, FALSE, "s_version")
    /\ seen' = {rows}
    /\ UNCHANGED <<codec, cli, clock, dir, sweep, made, remote, store, task>>

\* lines 136 and 158: the revision is read and the tables are listed
SnapshotVersion ==
    /\ pc = "s_version"
    /\ LET version == get_current_migration_version(catalog, rows)
       IN  IF version.err # ""
           THEN /\ result' = [NoResult EXCEPT !.kind = "RuntimeError",
                                              !.message = version.err]
                /\ pc' = "done"
                /\ UNCHANGED <<backup_data, todo>>
           ELSE /\ backup_data' = [migration_version |-> version.val, tables |-> NoTables]
                /\ todo' = Filter(TableOrder, SnapshotTableNames(catalog, rows))
                /\ pc' = "s_tables"
                /\ UNCHANGED result
    /\ UNCHANGED <<catalog, rows, files, call, diff_summary, tx, restored, exc, pre,
                   prev, edits, others>>

\* lines 160-187, one iteration: with engine.connect() as conn, select(table_obj)
SnapshotRead ==
    /\ pc = "s_tables"
    /\ todo # <<>>
    /\ backup_data' =
          [backup_data EXCEPT
             !.tables = [t \in DOMAIN @ \cup {Head(todo)} |->
                            IF t = Head(todo) THEN SnapshotTable(rows, t) ELSE @[t]]]
    /\ todo' = Tail(todo)
    /\ UNCHANGED <<catalog, rows, files, pc, call, diff_summary, tx, restored, exc,
                   result, pre, prev, edits, others>>

\* lines 190-226: the artifact is written and its path returned
SnapshotWrite(write) ==
    /\ pc = "s_tables"
    /\ todo = <<>>
    /\ LET written == WriteBytes(files, call.path, backup_data, write)
       IN  /\ files' = written.val
           /\ result' = IF written.err = ""
                        THEN [NoResult EXCEPT !.kind = "Path", !.success = TRUE,
                                              !.message = call.path]
                        ELSE [NoResult EXCEPT !.kind = "RuntimeError",
                                              !.message = written.err]
    /\ pc' = "done"
    /\ UNCHANGED <<catalog, rows, call, locals, pre, prev, edits, others>>

NextSnapshot ==
    \/ \E t \in DataTables : \E r \in RowDomain(t) : ConcurrentInsert(t, r)
    \/ \E t \in DataTables : \E r \in RowDomain(t) : ConcurrentDelete(t, r)
    \/ \E rev \in Revisions : ConcurrentMigrate(rev)
    \/ SnapshotStart
    \/ SnapshotVersion
    \/ SnapshotRead
    \/ \E write \in WriteOutcomes : SnapshotWrite(write)

SpecSnapshot == InitSnapshot /\ [][NextSnapshot]_vars

----------------------------------------------------------------------------
(* calculate_diff step by step, while another client drops tables: the       *)
(* inspector lists the catalog once and answers later lookups from its       *)
(* cache; every count reflects the table anew on a connection of its own.    *)

\* the artifacts create_backup writes of a database with all its tables
WrittenArtifacts ==
    {BuildBackup(AllTables, [EmptyRows EXCEPT ![AlembicTable] = {"r1"},
                                              !["sessions"] = sessions,
                                              !["blobs"] = blobs]).val :
        sessions \in SUBSET RowDomain("sessions"), blobs \in SUBSET RowDomain("blobs")}

InitDiffRace ==
    /\ catalog = AllTables
    /\ \E sessions \in SUBSET RowDomain("sessions") : \E blobs \in SUBSET RowDomain("blobs") :
          rows = [t \in AllTables |->
                    IF t = "sessions" THEN sessions
                    ELSE IF t = "blobs" THEN blobs ELSE {"r1"}]
    /\ \E bd \in WrittenArtifacts :
          files = [p \in Paths |->
                     IF p = BackupPath THEN BackupFile(bd)
                     ELSE IF p = InvalidPath THEN CorruptFile ELSE AbsentFile]
    /\ pc = "idle"
    /\ call = NoCall
    /\ backup_data = EmptyBackup
    /\ diff_summary = NoDiff
    /\ tx = NoTx
    /\ todo = <<>>
    /\ restored = NoCounts
    /\ exc = ""
    /\ result = NoResult
    /\ pre = NoPre
    /\ prev = ""
    /\ edits = NoEdits
    /\ codec = NoCodec
    /\ cli = NoCli
    /\ clock = 0
    /\ dir = {}
    /\ sweep = NoSweep
    /\ made = <<>>
    /\ seen = {}
    /\ remote = NoRemote
    /\ store = NoStore
    /\ task = NoTask

\* another client's DROP TABLE, committed while the diff runs
ConcurrentDrop(t) ==
    /\ pc = "q_count"
    /\ t \in catalog \cap DataTables
    /\ catalog' = catalog \ {t}
    /\ rows' = [rows EXCEPT ![t] = {}]
    /\ UNCHANGED <<files, pc, call, locals, result, pre, prev, edits, others>>

\* the tables the two loops visit, in order, each with the answer the inspector
\* gives for it: lines 270-275 and 295-300
DiffVisits(bd, listed) ==
    [i \in 1..Len(Filter(TableOrder, DOMAIN bd.tables)) |->
        [name |-> Filter(TableOrder, DOMAIN bd.tables)[i],
         listed |-> Filter(TableOrder, DOMAIN bd.tables)[i] \in listed,
         in_backup |-> TRUE]]
    \o [i \in 1..Len(Filter(TableOrder, OnlyInCurrent(bd, listed))) |->
          [name |-> Filter(TableOrder, OnlyInCurrent(bd, listed))[i],
           listed |-> TRUE,
           in_backup |-> FALSE]]

\* lines 246-267 and the first inspector.get_table_names()
DiffLoad ==
    /\ pc = "q_load"
    /\ LET loaded == LoadBackup(files, call.path)
       IN  IF loaded.err # ""
           THEN /\ result' = [NoResult EXCEPT !.kind = "RuntimeError",
                                              !.message = loaded.err]
                /\ pc' = "done"
                /\ UNCHANGED <<backup_data, todo, diff_summary>>
           ELSE /\ backup_data' = loaded.val
                /\ todo' = DiffVisits(loaded.val, catalog)
                /\ diff_summary' = NoDiff
                /\ pc' = "q_count"
                /\ UNCHANGED result
    /\ UNCHANGED <<catalog, rows, files, call, tx, restored, exc, pre, prev, edits,
                   others>>

\* Table(table_name, table_meta, autoload_with=engine) and the count, lines
\* 276-281 and 301-306: the reflection of a table that is gone raises
ReflectAndCount(cat, rws, t) ==
    IF t \notin cat THEN Raise("NoSuchTableError", 0) ELSE Ok(CountRows(rws, t))

\* one iteration of either loop; db_ok = FALSE is a connection that fails
DiffCount(db_ok) ==
    /\ pc = "q_count"
    /\ todo # <<>>
    /\ LET visit == Head(todo)
           counted == IF ~visit.listed THEN Ok(0)
                      ELSE IF ~db_ok THEN Raise("OperationalError", 0)
                      ELSE ReflectAndCount(catalog, rows, visit.name)
           backup_rows == IF visit.in_backup
                          THEN backup_data.tables[visit.name].row_count ELSE 0
       IN  IF counted.err # ""
           THEN /\ result' = [NoResult EXCEPT !.kind = "RuntimeError",
                                              !.message = counted.err]
                /\ pc' = "done"
                /\ UNCHANGED <<todo, diff_summary>>
           ELSE /\ diff_summary' =
                      [diff_summary EXCEPT
                         !.tables = [t \in DOMAIN @ \cup {visit.name} |->
                                       IF t = visit.name
                                       THEN TableDiff(counted.val, backup_rows)
                                       ELSE @[t]],
                         !.total_current_rows = @ + counted.val,
                         !.total_backup_rows = @ + backup_rows]
                /\ todo' = Tail(todo)
                /\ UNCHANGED <<result, pc>>
    /\ UNCHANGED <<catalog, rows, files, call, backup_data, tx, restored, exc, pre,
                   prev, edits, others>>

\* lines 314-323: the summary is returned
DiffFinish ==
    /\ pc = "q_count"
    /\ todo = <<>>
    /\ result' = [NoResult EXCEPT
                     !.kind = "DiffSummary", !.success = TRUE,
                     !.diff_summary =
                        [diff_summary EXCEPT
                           !.present = TRUE,
                           !.total_diff = diff_summary.total_backup_rows
                                          - diff_summary.total_current_rows]]
    /\ pc' = "done"
    /\ UNCHANGED <<catalog, rows, files, call, locals, pre, prev, edits, others>>

NextDiffRace ==
    \/ \E path \in Paths : Call("calculate_diff", path, FALSE, "q_load")
    \/ DiffLoad
    \/ \E t \in DataTables : ConcurrentDrop(t)
    \/ \E db_ok \in BOOLEAN : DiffCount(db_ok)
    \/ DiffFinish

SpecDiffRace == InitDiffRace /\ [][NextDiffRace]_vars

----------------------------------------------------------------------------
(* Properties of restore_backup *)

RestoreDone == pc = "done" /\ call.op = "restore_backup"

\* the rows of a live table as a snapshot records them, each cell encoded
Encoded(S) == {[j \in 1..Len(r) |-> _serialize_value(r[j])] : r \in S}

\* the rows a snapshot has for table t to reinsert
RecordedRows(bd, t) ==
    IF t \in DOMAIN bd.tables /\ bd.tables[t].row_count # 0
    THEN Range(bd.tables[t].data)
    ELSE {}

\* C1: when restore_backup fails, also after its transaction was opened and had
\* deleted rows, adjusted the revision or reinserted part of the rows, every live
\* table, alembic_version included, holds exactly the rows it held before the
\* call; while the transaction is open the committed rows are the rows before
\* the call too.
C1_FailedRestoreLeavesData ==
    /\ (RestoreDone /\ ~result.success) => (rows = pre.rows /\ catalog = pre.catalog)
    /\ (call.op = "restore_backup" /\ tx.state \in {"open", "rolledback"})
          => rows = pre.rows

\* a restore that failed on a table the live schema lost, after it had deleted
\* live rows and changed the revision inside the transaction
C1_Witness ==
    /\ RestoreDone
    /\ ~result.success
    /\ tx.state = "rolledback"
    /\ exc = "NoSuchTableError"
    /\ tx.rows[AlembicTable] # rows[AlembicTable]
    /\ \E t \in DataTables : rows[t] # {} /\ tx.rows[t] = {}

\* C2: after a successful restore every live table other than alembic_version
\* holds exactly the rows the snapshot records for it, and a live table the
\* snapshot lacks or records with row_count = 0 is empty.
C2_RestoreReplacesData ==
    (RestoreDone /\ result.success) =>
        \A t \in catalog \ {AlembicTable} :
            /\ Encoded(rows[t]) = RecordedRows(backup_data, t)
            /\ Cardinality(rows[t]) =
                  (IF t \in DOMAIN backup_data.tables
                   THEN backup_data.tables[t].row_count ELSE 0)

\* a successful restore that removed a live row the snapshot does not have, put
\* rows back, and emptied a live table the snapshot lacks
C2_Witness ==
    /\ RestoreDone
    /\ result.success
    /\ \E t \in catalog \cap DataTables :
          /\ rows[t] # {}
          /\ pre.rows[t] \ rows[t] # {}
    /\ \E t \in (catalog \cap DataTables) \ DOMAIN backup_data.tables :
          pre.rows[t] # {}

C4_RevisionFollowsSnapshot ==
    (RestoreDone /\ result.success) =>
        /\ rows[AlembicTable] =
              (IF backup_data.migration_version = "" THEN {}
               ELSE {backup_data.migration_version})
        /\ get_current_migration_version(pre.catalog, pre.rows).val
              = backup_data.migration_version
           => rows[AlembicTable] = pre.rows[AlembicTable]

\* a successful restore whose snapshot revision is non-empty and differs from the
\* live one
C4_Witness ==
    /\ RestoreDone
    /\ result.success
    /\ backup_data.migration_version # ""
    /\ pre.rows[AlembicTable] # {}
    /\ pre.rows[AlembicTable] # {backup_data.migration_version}

\* the snapshot tables the live schema does not have
MissingLive(bd, cat) == {t \in DOMAIN bd.tables : t \notin cat}

\* C5, as stated: whenever a table named in the snapshot does not exist live,
\* restore_backup fails as a whole and leaves the live data unchanged.
C5_AnyMissingTableFails ==
    (RestoreDone /\ MissingLive(backup_data, catalog) # {}) =>
        (~result.success /\ rows = pre.rows)

\* C5, amended: whenever a table that the snapshot records with row_count # 0
\* does not exist live, restore_backup fails as a whole and leaves the live data
\* unchanged; it is never skipped while the rest of the restore commits.
C5_MissingNonEmptyTableFails ==
    (/\ RestoreDone
     /\ \E t \in MissingLive(backup_data, catalog) :
           backup_data.tables[t].row_count # 0)
    => (~result.success /\ rows = pre.rows /\ tx.state # "committed")

\* a restore that met such a table after it had reinserted another table
C5_Witness ==
    /\ RestoreDone
    /\ \E t \in MissingLive(backup_data, catalog) :
          backup_data.tables[t].row_count # 0
    /\ tx.state = "rolledback"
    /\ restored.tables > 0
    /\ \E t \in DataTables : tx.rows[t] # rows[t]

AllZero(ds) ==
    /\ ds.present
    /\ \A t \in DOMAIN ds.tables : ds.tables[t].diff = 0
    /\ ds.total_diff = 0

\* C6: a successful restore of the snapshot that the call before it restored
\* too, with nothing in between, leaves the live data as the first restore left
\* it, and calculate_diff against the snapshot then reports diff 0 for every
\* table and total_diff 0.
C6_RestoreTwiceIsIdempotent ==
    (RestoreDone /\ result.success /\ prev = call.path) =>
        /\ rows = pre.rows
        /\ calculate_diff(files, call.path, catalog, rows).err = ""
        /\ AllZero(calculate_diff(files, call.path, catalog, rows).val)

\* a second restore in a row that reinserted rows
C6_Witness ==
    /\ RestoreDone
    /\ result.success
    /\ prev = call.path
    /\ restored.rows > 1

----------------------------------------------------------------------------
(* Properties of calculate_diff *)

DiffDone ==
    pc = "done" /\ call.op = "calculate_diff" /\ result.kind = "DiffSummary"

\* C7: for a snapshot written by create_backup and k row inserts and j row
\* deletes on a snapshotted table since, calculate_diff reports backup_rows =
\* the table's row count when the snapshot was taken, current_rows =
\* backup_rows + k - j and diff = backup_rows - current_rows; with no insert
\* and no delete at all every diff and total_diff are 0.
C7_DiffCountsEdits ==
    (DiffDone /\ call.path = BackupPath) =>
        /\ \A t \in DOMAIN files[BackupPath].data.tables :
              LET td == result.diff_summary.tables[t]
                  k == edits[t].ins
                  j == edits[t].del
              IN  /\ td.backup_rows = Cardinality(rows[t]) - k + j
                  /\ td.current_rows = td.backup_rows + k - j
                  /\ td.diff = td.backup_rows - td.current_rows
        /\ edits = NoEdits => AllZero(result.diff_summary)

\* a diff after inserts and a delete on the snapshotted table sessions
C7_Witness ==
    /\ DiffDone
    /\ call.path = BackupPath
    /\ edits["sessions"].ins > 1
    /\ edits["sessions"].del > 0
    /\ result.diff_summary.tables["sessions"].diff # 0

\* C8: every live table the snapshot lacks, alembic_version apart, is in
\* DiffSummary.tables with backup_rows = 0, current_rows = its live row count
\* and diff = -current_rows; alembic_version is never an entry.
C8_LiveOnlyTables ==
    DiffDone =>
        /\ \A t \in (catalog \ DOMAIN files[call.path].data.tables) \ {AlembicTable} :
              /\ t \in DOMAIN result.diff_summary.tables
              /\ result.diff_summary.tables[t].backup_rows = 0
              /\ result.diff_summary.tables[t].current_rows = Cardinality(rows[t])
              /\ result.diff_summary.tables[t].diff = 0 - Cardinality(rows[t])
        /\ AlembicTable \notin DOMAIN result.diff_summary.tables

\* a diff with a live-only table that holds rows, alembic_version being live
C8_Witness ==
    /\ DiffDone
    /\ AlembicTable \in catalog
    /\ \E t \in (catalog \ DOMAIN files[call.path].data.tables) \ {AlembicTable} :
          result.diff_summary.tables[t].diff < 0

\* C9: the keys of DiffSummary.tables are the snapshot's table names and the live
\* table names, alembic_version apart; total_current_rows and total_backup_rows
\* are the sums of the entries' current_rows and backup_rows; total_diff =
\* total_backup_rows - total_current_rows = the sum of the entries' diff.
C9_DiffSummaryTotals ==
    DiffDone =>
        LET ds == result.diff_summary
            names == DOMAIN ds.tables
        IN  /\ names = (DOMAIN files[call.path].data.tables \cup catalog)
                          \ {AlembicTable}
            /\ ds.total_current_rows =
                  Sum([t \in names |-> ds.tables[t].current_rows], names)
            /\ ds.total_backup_rows =
                  Sum([t \in names |-> ds.tables[t].backup_rows], names)
            /\ ds.total_diff = ds.total_backup_rows - ds.total_current_rows
            /\ ds.total_diff = Sum([t \in names |-> ds.tables[t].diff], names)

\* a diff over a snapshot table with rows, a snapshot table that is not live any
\* more and a live-only table with rows
C9_Witness ==
    /\ DiffDone
    /\ \E t \in DOMAIN files[call.path].data.tables :
          t \in catalog /\ result.diff_summary.tables[t].backup_rows > 0
    /\ \E t \in catalog \ DOMAIN files[call.path].data.tables :
          t # AlembicTable /\ result.diff_summary.tables[t].current_rows > 0

\* C10: calculate_diff, returning or raising, leaves every live table, the
\* catalog and the files as they were; so does create_backup for the tables; and
\* during restore_backup the committed rows differ from those before the call
\* only once its transaction is committed.
C10_DiffIsReadOnly ==
    /\ call.op = "calculate_diff" =>
          (rows = pre.rows /\ catalog = pre.catalog /\ files = pre.files)
    /\ call.op = "create_backup" => (rows = pre.rows /\ catalog = pre.catalog)
    /\ call.op = "restore_backup" =>
          /\ files = pre.files
          /\ catalog = pre.catalog
          /\ rows # pre.rows => tx.state = "committed"

\* calculate_diff has returned a summary of a database that holds rows
C10_Witness ==
    /\ DiffDone
    /\ result.diff_summary.total_current_rows > 1
    /\ result.diff_summary.total_backup_rows > 0

----------------------------------------------------------------------------
(* Properties of the value codec *)

\* C11: decoding an encoded cell value gives the value back, with the column's
\* type as the hint and also the way restore_backup decodes, without a hint
C11_RoundTrip ==
    codec.stage = "decoded" => codec.dec = codec.v

----------------------------------------------------------------------------
(* Properties of the command `backup restore` *)

\* the positions of event e in the command's trace
At(e) == {i \in 1..Len(cli.log) : cli.log[i] = e}

\* some e comes before position i
Before(e, i) == \E j \in At(e) : j < i

\* C12: restore_backup is invoked only without --dry-run and with --yes or an
\* accepted confirmation; the prompt comes after the diff was computed and
\* printed; a dry run calls calculate_diff only and leaves the database as it was
C12_RestoreNeedsConsent ==
    /\ \A i \in At("restore_backup") :
          ~cli.dry_run /\ (cli.yes \/ Before("accepted", i))
    /\ (cli.pc # "" /\ call.op = "restore_backup") =>
          (At("restore_backup") # {} /\ ~cli.dry_run)
    /\ \A i \in At("prompt") :
          \E k \in At("print_diff") : k < i /\ Before("calculate_diff", k)
    /\ (~cli.dry_run /\ ~cli.yes) =>
          \A i \in At("restore_backup") : Before("prompt", i)
    /\ (cli.pc # "" /\ cli.dry_run) =>
          /\ At("restore_backup") = {}
          /\ call.op \in {"", "calculate_diff"}
          /\ catalog = cli.catalog
          /\ rows = cli.rows

\* a restore that was confirmed at the prompt and replaced the data
C12_Witness ==
    /\ cli.pc = "c_done"
    /\ cli.log = <<"calculate_diff", "print_diff", "prompt", "accepted",
                   "restore_backup", "restored">>
    /\ rows # cli.rows

----------------------------------------------------------------------------
(* Properties of create_backup *)

BackupDone == pc = "done" /\ call.op = "create_backup"

\* C13: a create_backup that fails raises its RuntimeError and leaves no partial
\* file: the directory is as it was; the file it names exists only after a
\* whole build and then holds the complete artifact
C13_NoPartialFile ==
    BackupDone =>
        /\ result.kind \in {"Path", "RuntimeError"}
        /\ result.kind = "RuntimeError" => files = pre.files
        /\ result.kind = "Path" =>
              /\ BuildBackup(pre.catalog, pre.rows).err = ""
              /\ files[result.message] = BackupFile(BuildBackup(pre.catalog, pre.rows).val)

----------------------------------------------------------------------------
(* Properties of the retention sweep *)

\* the name follows backup_<YYYYMMDD_HHMMSS>.<ext>
FollowsConvention(f) == strptime(f.stamp).err = ""

\* C14: the sweep deletes every artifact named by the convention, those of
\* create_backup included, whose stamp is older than now - retention_days, and
\* deletes no artifact whose stamp is not older
C14_SweepDeletesExpired ==
    sweep.ran =>
        \A f \in sweep.before :
            LET old == /\ FollowsConvention(f)
                       /\ strptime(f.stamp).val
                            < clock - RetentionDays(sweep.setting) * Day
            IN  /\ (old /\ f \notin sweep.failed) => f \notin dir
                /\ ~old => f \in dir

----------------------------------------------------------------------------
(* Properties of the artifact names *)

\* text a sorts strictly before text b
RECURSIVE SortsBefore(_, _)
SortsBefore(a, b) ==
    IF b = <<>> THEN FALSE
    ELSE IF a = <<>> THEN TRUE
    ELSE IF Head(a) # Head(b) THEN Head(a) < Head(b)
    ELSE SortsBefore(Tail(a), Tail(b))

\* C15: two create_backup calls that start more than one second apart return
\* distinct names, the later call's name sorts after the earlier one's, and
\* the earlier artifact is still in the directory
C15_NamesFollowStartTimes ==
    \A i, j \in 1..Len(made) :
        (/\ i < j
         /\ made[i].name # <<>>
         /\ made[j].name # <<>>
         /\ made[j].start - made[i].start > TicksPerSecond)
        => /\ made[i].name # made[j].name
           /\ SortsBefore(made[i].name, made[j].name)
           /\ NamedFile(made[i].name, "backup.gz", i) \in dir

----------------------------------------------------------------------------
(* More properties of restore_backup and calculate_diff *)

\* the comparison of the snapshot with the database as the call found it
PreRestoreDiff == calculate_diff(pre.files, call.path, pre.catalog, pre.rows)

C17_DiffRaisesOnBadFile ==
    (pc = "done" /\ call.op = "calculate_diff" /\ files[call.path].kind # "backup") =>
        /\ result.kind = "RuntimeError"
        /\ result.diff_summary = NoDiff
        /\ files[call.path].kind = "absent" => result.message = "Backup file not found"
        /\ files[call.path].kind = "corrupt" => result.message # "Backup file not found"

\* calculate_diff on a path with no file, the database being reachable
C17_Witness ==
    /\ pc = "done"
    /\ call.op = "calculate_diff"
    /\ files[call.path].kind = "absent"
    /\ result.message = "Backup file not found"

\* C18: a restore_backup call loads, then computes the diff if asked, then runs
\* its transaction, which ends committed or rolled back and is never touched
\* again; nothing is deleted or inserted before the transaction is open; a load
\* failure ends the call with no transaction; success is reported exactly when
\* the transaction was committed
C18_Phases ==
    call.op = "restore_backup" =>
        /\ pc \in {"r_load", "r_diff", "r_begin"} => (tx = NoTx /\ rows = pre.rows)
        /\ pc = "r_load" => (backup_data = EmptyBackup /\ diff_summary = NoDiff)
        /\ pc = "r_diff" => (call.show_diff /\ diff_summary = NoDiff)
        /\ pc \in {"r_truncate", "r_insert"} => (tx.state = "open" /\ rows = pre.rows)
        /\ pc = "r_except" => (tx.state \in {"none", "open"} /\ rows = pre.rows)
        /\ tx.state \in {"committed", "rolledback"} => pc = "done"
        /\ pc = "done" =>
              /\ tx.state \in {"none", "committed", "rolledback"}
              /\ tx.state = "none" => (tx = NoTx /\ rows = pre.rows)
              /\ tx.state = "none" => exc # ""
              /\ LoadBackup(pre.files, call.path).err # "" => tx.state = "none"
              /\ tx.state = "committed" => rows = tx.rows
              /\ tx.state = "rolledback" => rows = pre.rows
              /\ result.success <=> tx.state = "committed"

\* a restore that failed in its transaction after it had deleted rows
C18_Witness ==
    /\ RestoreDone
    /\ tx.state = "rolledback"
    /\ tx.rows # rows
    /\ ~result.success

\* C20: with show_diff, a failure of the diff does not block the restore: the
\* transaction is opened all the same
C20_DiffFailureDoesNotBlock ==
    (/\ RestoreDone
     /\ call.show_diff
     /\ LoadBackup(pre.files, call.path).err = ""
     /\ ~result.diff_summary.present)
    => tx.state # "none"

----------------------------------------------------------------------------
(* Properties of a snapshot built while other clients commit *)

\* C19: a snapshot captures the database at one point in time: at some moment
\* of the build the committed tables and revision were what the snapshot holds
C19_SnapshotIsOneMoment ==
    (BackupDone /\ result.kind = "Path") =>
        \E at \in seen : files[call.path] = BackupFile(BuildBackup(catalog, at).val)

----------------------------------------------------------------------------
(* Properties of calculate_diff while tables are dropped *)

\* C21: a table whose rows cannot be counted, because it was dropped after the
\* catalog was looked up, is recorded with current_rows = 0 and the diff of the
\* other tables is returned; only a failing connection aborts the diff
C21_TableFailureDegrades ==
    (pc = "done" /\ call.op = "calculate_diff"
     /\ LoadBackup(pre.files, call.path).err = "") =>
        /\ result.kind = "RuntimeError" => result.message = "OperationalError"
        /\ result.kind = "DiffSummary" =>
              \A t \in DOMAIN result.diff_summary.tables :
                  t \notin catalog => result.diff_summary.tables[t].current_rows = 0

----------------------------------------------------------------------------
(* Properties of the decoder on its own *)

\* the shapes the decoder turns into something else: null, a bytes object with
\* base64 data, ISO-8601 text under a timestamp hint
Recognized(value, column_type) ==
    \/ value.t = "dict" /\ value.s = "bytes" /\ value.n \notin {NoData, BadData}
    \/ value.t = "str" /\ value.s = "iso" /\ column_type = "timestamp"

\* C22: _deserialize_value raises for no JSON value; a value it does not
\* recognize, a bytes object without data or with data that is no base64 and
\* non-ISO text under a timestamp hint included, comes back unchanged
C22_DecodeNeverRaises ==
    codec.stage = "decoded" =>
        /\ codec.dec.t # "raise"
        /\ ~Recognized(codec.enc, codec.v.s) => codec.dec = codec.enc

----------------------------------------------------------------------------
(* Properties of the snapshot create_backup writes *)

\* the snapshot a successful create_backup left in the file it returned
Written == files[result.message].data

\* C23: the tables mapping of a snapshot written by create_backup has one
\* entry for each table the catalog lists at capture time except
\* alembic_version, which is never a key; a table without rows is a key too,
\* with row_count 0 and no data
C23_OneEntryPerTable ==
    (BackupDone /\ result.kind = "Path") =>
        /\ DOMAIN Written.tables = pre.catalog \ {AlembicTable}
        /\ AlembicTable \notin DOMAIN Written.tables
        /\ \A t \in DOMAIN Written.tables :
              /\ Written.tables[t].columns = Columns(t)
              /\ pre.rows[t] = {} =>
                    Written.tables[t].row_count = 0 /\ Written.tables[t].data = <<>>

C23_Witness ==
    /\ BackupDone /\ result.kind = "Path"
    /\ AlembicTable \in pre.catalog
    /\ \E t, u \in DOMAIN Written.tables : pre.rows[t] = {} /\ pre.rows[u] # {}

\* C26: a database whose migration revision is missing or empty at capture
\* time does not make create_backup abort: the artifact is written and its
\* metadata records migration_version as the empty string
C26_MissingRevisionTolerated ==
    (BackupDone /\ (AlembicTable \notin pre.catalog \/ pre.rows[AlembicTable] = {})) =>
        /\ result.message # "Failed to get migration version"
        /\ result.kind = "Path" => Written.migration_version = ""

----------------------------------------------------------------------------
(* Artifacts that create_backup did not write: any gzipped JSON document    *)
(* that BackupData.model_validate_json accepts.  TableBackup declares       *)
(* row_count: int, columns: List[str], data: List[List[Any]] and nothing    *)
(* that ties the three together.                                            *)

\* rows an artifact can list for table t: encoded rows, whole or cut short
ForeignRows(t) ==
    Encoded(RowDomain(t)) \cup {SubSeq(r, 1, 1) : r \in Encoded(RowDomain(t))}

\* the TableBackup objects the model class accepts for table t
ForeignTables(t) ==
    {[row_count |-> n, columns |-> columns, data |-> data] :
        n \in 0..MaxSessions,
        columns \in {Columns(t), SubSeq(Columns(t), 1, 1)},
        data \in {<<>>} \cup {<<r>> : r \in ForeignRows(t)}
                 \cup {<<r, q>> : r \in ForeignRows(t), q \in ForeignRows(t)}}

ForeignArtifacts ==
    {EmptyBackup}
    \cup {[migration_version |-> "r1", tables |-> [t \in {"sessions"} |-> tb]] :
            tb \in ForeignTables("sessions")}

InitForeign ==
    /\ catalog = AllTables
    /\ \E sessions \in SUBSET RowDomain("sessions") :
          rows = [EmptyRows EXCEPT ![AlembicTable] = {"r1"}, !["sessions"] = sessions]
    /\ \E bd \in ForeignArtifacts :
          files = [p \in Paths |->
                     IF p = BackupPath THEN BackupFile(bd)
                     ELSE IF p = InvalidPath THEN CorruptFile ELSE AbsentFile]
    /\ pc = "idle"
    /\ call = NoCall
    /\ backup_data = EmptyBackup
    /\ diff_summary = NoDiff
    /\ tx = NoTx
    /\ todo = <<>>
    /\ restored = NoCounts
    /\ exc = ""
    /\ result = NoResult
    /\ pre = NoPre
    /\ prev = ""
    /\ edits = NoEdits
    /\ codec = NoCodec
    /\ cli = NoCli
    /\ clock = 0
    /\ dir = {}
    /\ sweep = NoSweep
    /\ made = <<>>
    /\ seen = {}
    /\ remote = NoRemote
    /\ store = NoStore
    /\ task = NoTask

NextForeign ==
    \/ CreateBackupCall
    \/ \E write \in WriteOutcomes : CreateBackupRun(TRUE, write)
    \/ CalculateDiffCall(BackupPath)
    \/ \E db_ok \in BOOLEAN : CalculateDiffRun(db_ok)
    \/ \E show_diff \in BOOLEAN : RestoreCall(BackupPath, show_diff)
    \/ RestoreLoad
    \/ \E db_ok \in BOOLEAN : RestoreDiff(db_ok)
    \/ RestoreBegin
    \/ RestoreTruncate
    \/ RestoreVersion
    \/ RestoreInsert
    \/ RestoreDbError
    \/ RestoreCommit
    \/ RestoreExcept
    \/ Return

SpecForeign == InitForeign /\ [][NextForeign]_vars

\* row_count == len(data), and every row has len(columns) values
WellFormed(tb) ==
    /\ tb.row_count = Len(tb.data)
    /\ \A i \in 1..Len(tb.data) : Len(tb.data[i]) = Len(tb.columns)

\* the snapshot the running call read from its path
Loaded == LoadBackup(pre.files, call.path).val

\* C24: every TableBackup create_backup writes, and every TableBackup of an
\* artifact that calculate_diff or restore_backup accepts, has row_count =
\* len(data) and rows of len(columns) values
C24_TableBackupsWellFormed ==
    /\ (BackupDone /\ result.kind = "Path") =>
           \A t \in DOMAIN Written.tables : WellFormed(Written.tables[t])
    /\ (pc = "done" /\ call.op \in {"calculate_diff", "restore_backup"} /\ result.success) =>
           \A t \in DOMAIN Loaded.tables : WellFormed(Loaded.tables[t])

\* rows the data tables hold
LiveRows == Sum([t \in DataTables |-> Cardinality(rows[t])], DataTables)

\* C25: after a successful restore, restored_rows is the number of rows that
\* were inserted into the live database, which is the number of rows its
\* truncated tables now hold, and restored_tables the number of tables that
\* received a row; both are 0 when the snapshot has no rows
C25_CountsAreInsertedRows ==
    (RestoreDone /\ result.success) =>
        /\ result.restored_rows = LiveRows
        /\ result.restored_tables = Cardinality({t \in DataTables : rows[t] # {}})

----------------------------------------------------------------------------
(* Properties of the retention sweep, one artifact at a time *)

\* the artifact's stamp is older than now - retention_days
Old(f) ==
    FollowsConvention(f) /\ strptime(f.stamp).val < clock - RetentionDays(sweep.setting) * Day

\* C27: the sweep never deletes an artifact whose stamp does not parse, and
\* when a stamp did not parse or a deletion failed, every other expired
\* artifact is deleted in the same run all the same
C27_SweepIsBestEffort ==
    sweep.ran =>
        /\ \A f \in sweep.before : ~FollowsConvention(f) => f \in dir
        /\ (sweep.failed # {} \/ \E g \in sweep.before : ~FollowsConvention(g)) =>
              \A f \in sweep.before : (Old(f) /\ f \notin sweep.failed) => f \notin dir

----------------------------------------------------------------------------
(* BackupTask with remote object storage (batch/tasks/backup.py)            *)

\* _init_storage: S3_ENDPOINT, S3_BUCKET and S3_ACCESS_KEY are set, or not
InitRemote ==
    /\ InitEngine
    /\ codec = NoCodec
    /\ cli = NoCli
    /\ clock = 0
    /\ dir \in {{}, {StrayFile}}
    /\ \E setting \in RetentionSettings : sweep = [NoSweep EXCEPT !.setting = setting]
    /\ made = <<>>
    /\ seen = {}
    /\ \E configured \in BOOLEAN : remote = [NoRemote EXCEPT !.configured = configured]
    /\ store = NoStore
    /\ task = NoTask

\* _upload_to_s3: self.storage.write(remote_name, ...)
UploadToS3(objects, f) == WriteNamed(objects, f)

\* the remote pass of _cleanup_old_backups, lines 185-189: `pass`
CleanupRemote(objects, cutoff_date) == objects

\* BackupTask.execute: dump, local copy, upload if storage is configured, then
\* the sweep; a failed upload raises and the sweep is not reached.  stuck are
\* the local files whose unlink raises OSError
BackupExecute(upload_ok, stuck) ==
    LET f == NamedFile(strftime(clock), "dump", 0)
        saved == WriteNamed(dir, f)
        cutoff_date == CutoffDate(clock, sweep.setting)
    IN  /\ Fits(dir, f)
        /\ Fits(remote.objects, f)
        /\ remote.configured \/ upload_ok
        /\ IF remote.configured /\ ~upload_ok
           THEN /\ stuck = {}
                /\ dir' = saved
                /\ sweep' = [NoSweep EXCEPT !.setting = sweep.setting]
                /\ remote' = remote
           ELSE /\ stuck \subseteq ToUnlink(saved, cutoff_date)
                /\ dir' = saved \ (ToUnlink(saved, cutoff_date) \ stuck)
                /\ sweep' = [sweep EXCEPT !.ran = TRUE, !.cutoff_date = cutoff_date,
                                          !.before = saved, !.failed = stuck]
                /\ remote' =
                      IF remote.configured
                      THEN [remote EXCEPT !.objects =
                              CleanupRemote(UploadToS3(remote.objects, f), cutoff_date)]
                      ELSE remote
        /\ UNCHANGED <<engine, codec, cli, clock, made, seen, store, task>>

NextRemote ==
    \/ Tick(Day, MaxDays * Day)
    \/ \E upload_ok \in BOOLEAN :
          \E stuck \in SUBSET (dir \cup {NamedFile(strftime(clock), "dump", 0)}) :
             BackupExecute(upload_ok, stuck)

SpecRemote == InitRemote /\ [][NextRemote]_vars

\* C28: with remote object storage configured, a run of the sweep leaves no
\* remote artifact named backup_<timestamp>.<ext> whose stamp is older than
\* now - retention_days, whatever became of the local pass
C28_RemotePassDeletesExpired ==
    (sweep.ran /\ remote.configured) => \A f \in remote.objects : ~Old(f)

----------------------------------------------------------------------------
(* SessionService (repositories/session_repository.py).  A session row is   *)
(* [session_id, data, expires_at, fingerprint]; session data is a JSON      *)
(* object, PyDict(k, n) with k the type of its keys.  A session id is a      *)
(* positive number, 0 stands for None.                                      *)

\* settings.SESSION_EXPIRE, in ticks
SESSION_EXPIRE == 2

\* the User-Agent headers a request can carry, "" for none
UserAgents == {"", "unknown", "Mozilla/5.0"}

\* the data a caller can put in a session
SessionData == {PyDict("str keys", 1), PyDict("int keys", 2)}

\* generate_fingerprint: sha256 of "<ua or unknown>|<ip or unknown>"
generate_fingerprint(user_agent) == IF user_agent = "" THEN "unknown" ELSE user_agent

\* verify_fingerprint
verify_fingerprint(stored_fingerprint, user_agent) ==
    stored_fingerprint = generate_fingerprint(user_agent)

\* json.dumps / json.loads: the keys of an object come back as strings
JsonRoundTrip(data) == IF data.t = "dict" THEN PyDict("str keys", data.n) ELSE data

\* SessionEncryption.encrypt: the token of the JSON text
encrypt(data) == [token |-> TRUE, json |-> JsonRoundTrip(data)]

\* SessionEncryption.decrypt: ValueError for what is no token
decrypt(encrypted_data) ==
    IF encrypted_data.token THEN Ok(encrypted_data.json) ELSE Raise("ValueError", PyNone)

\* self.db.query(Session).filter(Session.session_id == session_id)
Query(sessions, session_id) == {x \in sessions : x.session_id = session_id}

\* delete_session: the DELETE committed, or rolled back on an exception and
\* False returned
delete_session(sessions, session_id, db_ok) ==
    [ret |-> db_ok /\ Query(sessions, session_id) # {},
     sessions |-> IF db_ok THEN sessions \ Query(sessions, session_id) ELSE sessions]

\* get_session without CSRF verification: the data, or None; an expired
\* session, one with another fingerprint and one that does not decrypt are
\* deleted
get_session(sessions, session_id, user_agent, now, db_ok) ==
    IF Query(sessions, session_id) = {} THEN [ret |-> PyNone, sessions |-> sessions]
    ELSE LET session == CHOOSE x \in Query(sessions, session_id) : TRUE
             deleted == delete_session(sessions, session_id, db_ok).sessions
         IN  IF session.expires_at < now THEN [ret |-> PyNone, sessions |-> deleted]
             ELSE IF ~verify_fingerprint(session.fingerprint, user_agent)
                  THEN [ret |-> PyNone, sessions |-> deleted]
             ELSE IF decrypt(session.data).err # ""
                  THEN [ret |-> PyNone, sessions |-> deleted]
             ELSE [ret |-> decrypt(session.data).val, sessions |-> sessions]

\* create_session: a fresh id (secrets.token_hex(32)), the row added
create_session(st, data, user_agent, now) ==
    [ret |-> st.generated + 1,
     generated |-> st.generated + 1,
     sessions |-> st.sessions \cup
                    {[session_id |-> st.generated + 1, data |-> encrypt(data),
                      expires_at |-> now + SESSION_EXPIRE,
                      fingerprint |-> generate_fingerprint(user_agent)]}]

\* regenerate_session_id
regenerate_session_id(st, old_session_id, user_agent, now, db_ok) ==
    LET got == get_session(st.sessions, old_session_id, user_agent, now, TRUE)
        deleted == delete_session(got.sessions, old_session_id, db_ok)
        created == create_session([st EXCEPT !.sessions = deleted.sessions],
                                  got.ret, user_agent, now)
    IN  IF got.ret = PyNone
        THEN [ret |-> 0, generated |-> st.generated, sessions |-> got.sessions]
        ELSE created

Answer(op, old, user_agent, ret, held, before) ==
    [op |-> op, old |-> old, user_agent |-> user_agent, ret |-> ret, held |-> held,
     before |-> before]

InitSession == Init

\* session ids a caller can present: those generated, and one that never was
KnownIds == 1..(store.generated + 1)

SessionCreate(data, user_agent) ==
    /\ store.generated < MaxIds
    /\ Cardinality(store.sessions) < MaxSessions
    /\ LET created == create_session(store, data, user_agent, clock)
       IN  store' = [sessions |-> created.sessions, generated |-> created.generated,
                     last |-> Answer("create", 0, user_agent, created.ret, PyNone,
                                     store.sessions)]
    /\ UNCHANGED <<engine, codec, cli, clock, dir, sweep, made, seen, remote, task>>

SessionGet(session_id, user_agent) ==
    /\ LET got == get_session(store.sessions, session_id, user_agent, clock, TRUE)
       IN  store' = [store EXCEPT !.sessions = got.sessions,
                                  !.last = Answer("get", session_id, user_agent, 0, got.ret,
                                                  store.sessions)]
    /\ UNCHANGED <<engine, codec, cli, clock, dir, sweep, made, seen, remote, task>>

\* the held data is what get_session answers for the old id before the call
SessionRegenerate(old_session_id, user_agent, db_ok) ==
    /\ store.generated < MaxIds
    /\ LET done == regenerate_session_id(store, old_session_id, user_agent, clock, db_ok)
       IN  store' = [sessions |-> done.sessions, generated |-> done.generated,
                     last |-> Answer("regenerate", old_session_id, user_agent, done.ret,
                                 get_session(store.sessions, old_session_id, user_agent,
                                             clock, TRUE).ret,
                                 store.sessions)]
    /\ UNCHANGED <<engine, codec, cli, clock, dir, sweep, made, seen, remote, task>>

\* time passes between two requests
SessionTick ==
    /\ clock < MaxSessionTicks
    /\ clock' = clock + 1
    /\ store' = [store EXCEPT !.last = NoAnswer]
    /\ UNCHANGED <<engine, codec, cli, dir, sweep, made, seen, remote, task>>

NextSession ==
    \/ \E data \in SessionData : \E user_agent \in UserAgents : SessionCreate(data, user_agent)
    \/ \E session_id \in KnownIds : \E user_agent \in UserAgents :
          SessionGet(session_id, user_agent)
    \/ \E old_session_id \in KnownIds : \E user_agent \in UserAgents : \E db_ok \in BOOLEAN :
          SessionRegenerate(old_session_id, user_agent, db_ok)
    \/ SessionTick

SpecSession == InitSession /\ [][NextSession]_vars

\* C29: after regenerate_session_id returned a new id, the new id is not the
\* old one, get_session answers None for the old id and the old session's
\* data for the new id; when the old session was missing, expired or of
\* another fingerprint, the call returned None and no session was created
C29_RegenerateReplacesSession ==
    store.last.op = "regenerate" =>
        /\ store.last.ret # 0 =>
              /\ store.last.ret # store.last.old
              /\ get_session(store.sessions, store.last.old, store.last.user_agent,
                             clock, TRUE).ret = PyNone
              /\ get_session(store.sessions, store.last.ret, store.last.user_agent,
                             clock, TRUE).ret = store.last.held
        /\ store.last.held = PyNone =>
              /\ store.last.ret = 0
              /\ store.sessions \subseteq store.last.before

----------------------------------------------------------------------------
(* BatchTask.run (batch/base.py).  execute is abstract and the two hooks    *)
(* are made to be overridden: each of them returns or raises.  events is   *)
(* the sequence of calls run() made; error is the exception bound to e,    *)
(* raised the exception that left run().                                    *)

\* what a subclass's execute can do: return, raise an Exception, or raise a
\* BaseException that is no Exception (KeyboardInterrupt, SystemExit)
ExecuteOutcomes == {"returns", "Exception", "BaseException"}

\* what an overridden hook can do
HookOutcomes == {"returns", "Exception"}

InitTask == Init

TaskStep(next) ==
    /\ task' = next
    /\ UNCHANGED <<engine, codec, cli, clock, dir, sweep, made, seen, remote, store>>

\* task.run() is called on a task whose execute and hooks behave as given
RunStart(execute, on_success, on_failure) ==
    /\ task.pc = "idle"
    /\ task.runs < MaxRuns
    /\ TaskStep([NoTask EXCEPT !.pc = "execute", !.execute = execute,
                               !.on_success = on_success, !.on_failure = on_failure,
                               !.runs = task.runs])

\* line 83: self.execute()
RunExecute ==
    /\ task.pc = "execute"
    /\ TaskStep([task EXCEPT
            !.events = Append(@, "execute"),
            !.pc = IF task.execute = "returns" THEN "on_success"
                   ELSE IF task.execute = "Exception" THEN "on_failure" ELSE "done",
            !.error = IF task.execute = "Exception" THEN "execute" ELSE @,
            !.raised = IF task.execute = "BaseException" THEN "execute" ELSE @])

\* line 84: self.on_success(), inside the try block
RunOnSuccess ==
    /\ task.pc = "on_success"
    /\ TaskStep([task EXCEPT
            !.events = Append(@, "on_success"),
            !.pc = IF task.on_success = "returns" THEN "done" ELSE "on_failure",
            !.error = IF task.on_success = "returns" THEN @ ELSE "on_success"])

\* lines 87-88: except Exception as e: self.on_failure(e)
RunOnFailure ==
    /\ task.pc = "on_failure"
    /\ TaskStep([task EXCEPT
            !.events = Append(@, "on_failure"),
            !.pc = IF task.on_failure = "returns" THEN "capture" ELSE "done",
            !.raised = IF task.on_failure = "returns" THEN @ ELSE "on_failure"])

\* lines 89-90: sentry_sdk.capture_exception(e); raise
RunCapture ==
    /\ task.pc = "capture"
    /\ TaskStep([task EXCEPT !.events = Append(@, "capture_exception"),
                             !.pc = "done", !.raised = task.error])

\* the caller has the outcome of run()
RunReturn ==
    /\ task.pc = "done"
    /\ TaskStep([NoTask EXCEPT !.runs = task.runs + 1])

NextTask ==
    \/ \E execute \in ExecuteOutcomes : \E on_success, on_failure \in HookOutcomes :
          RunStart(execute, on_success, on_failure)
    \/ RunExecute
    \/ RunOnSuccess
    \/ RunOnFailure
    \/ RunCapture
    \/ RunReturn

SpecTask == InitTask /\ [][NextTask]_vars

\* how often run() called what
Calls(what) == Cardinality({i \in 1..Len(task.events) : task.events[i] = what})

\* C30: in every run() exactly one hook runs: on_success exactly when execute
\* returned, on_failure exactly when execute raised; when execute raised, its
\* exception is reported to Sentry once, after on_failure, and is the
\* exception that leaves run()
C30_ExactlyOneHook ==
    task.pc = "done" =>
        /\ Calls("on_success") + Calls("on_failure") = 1
        /\ Calls("on_success") = 1 <=> task.execute = "returns"
        /\ Calls("on_failure") = 1 <=> task.execute # "returns"
        /\ task.execute # "returns" =>
              /\ task.events = <<"execute", "on_failure", "capture_exception">>
              /\ task.raised = "execute"

====
